---- MODULE Spec2Model ----
(***************************************************************************)
(* Model of the client-side file envelope of mdanina/securestorage:        *)
(* src/src/lib/encryption.ts (encryptFile, decryptFile) together with the  *)
(* browser and crypto-js primitives those two functions call.              *)
(*                                                                         *)
(* Text is a sequence of character codes, binary data a sequence of bytes  *)
(* (0..255), a crypto-js WordArray a record of signed 32-bit words and a   *)
(* sigBytes count.  AES itself is a library: it is modelled as a keyed     *)
(* permutation of 16-byte blocks with its inverse (AesEncryptBlock,        *)
(* AesDecryptBlock); everything around it (padding, chaining, the textual  *)
(* formats, the validation steps) is modelled step by step.                *)
(***************************************************************************)
EXTENDS Integers, Sequences, FiniteSets, TLC

(***************************************************************************)
(* Characters and bytes                                                    *)
(***************************************************************************)

\* The printable ASCII characters, codes 32..126, used to write text literals
\* (the double quote and the backslash are written by code, ChQuote and
\* ChBackslash).
AsciiPrintable ==
  << " ", "!", "dquote", "#", "$", "%", "&", "'", "(", ")", "*", "+", ",", "-", ".", "/",
     "0", "1", "2", "3", "4", "5", "6", "7", "8", "9", ":", ";", "<", "=", ">", "?",
     "@", "A", "B", "C", "D", "E", "F", "G", "H", "I", "J", "K", "L", "M", "N", "O",
     "P", "Q", "R", "S", "T", "U", "V", "W", "X", "Y", "Z", "[", "bslash", "]", "^", "_",
     "btick", "a", "b", "c", "d", "e", "f", "g", "h", "i", "j", "k", "l", "m", "n", "o",
     "p", "q", "r", "s", "t", "u", "v", "w", "x", "y", "z", "{", "|", "}", "~" >>

\* A sequence given by a rule, with every element computed once.
Tuple(f) == f \o <<>>

Ord(c) == 31 + (CHOOSE i \in 1..Len(AsciiPrintable) : AsciiPrintable[i] = c)

\* A text literal: the character codes of a tuple of one-character strings.
Str(cs) == Tuple([i \in 1..Len(cs) |-> Ord(cs[i])])

Pow2(n) == 2 ^ n

RECURSIVE BitXor(_, _, _)
\* Bitwise exclusive or of the low n bits of a and b.
BitXor(a, b, n) ==
  IF n = 0 THEN 0
  ELSE (((a % 2) + (b % 2)) % 2) + 2 * BitXor(a \div 2, b \div 2, n - 1)

XorByte(a, b) == BitXor(a, b, 8)

XorBytes(x, y) == Tuple([i \in 1..Len(x) |-> XorByte(x[i], y[i])])

\* s[from..to], 1-based and inclusive; empty when to < from.
Slice(s, from, to) == IF to < from THEN <<>> ELSE SubSeq(s, from, to)

Repeat(v, n) == Tuple([i \in 1..n |-> v])

(***************************************************************************)
(* crypto-js WordArray                                                     *)
(***************************************************************************)

\* The signed 32-bit word holding four bytes, most significant first.
WordOf(b0, b1, b2, b3) ==
  (IF b0 >= 128 THEN b0 - 256 ELSE b0) * 16777216 + b1 * 65536 + b2 * 256 + b3

\* (word >>> (24 - j * 8)) & 0xff, j in 0..3
WordByte(word, j) == (word \div Pow2(24 - j * 8)) % 256

\* CryptoJS.lib.WordArray.create(uint8Array): big-endian packing, the last
\* word zero-filled, sigBytes the byte length.
WordArrayCreate(bytes) ==
  LET n == Len(bytes)
      at(i) == IF i <= n THEN bytes[i] ELSE 0
  IN  [words |-> Tuple([w \in 1..((n + 3) \div 4) |->
                    WordOf(at(4 * w - 3), at(4 * w - 2), at(4 * w - 1), at(4 * w))]),
       sigBytes |-> n]

\* The bytes of all words of a WordArray, whatever its sigBytes.
WordBytes(words) ==
  Tuple([i \in 1..(4 * Len(words)) |-> WordByte(words[(i + 3) \div 4], (i - 1) % 4)])

(***************************************************************************)
(* Hex (CryptoJS.enc.Hex)                                                  *)
(***************************************************************************)

HexDigit(v) == IF v < 10 THEN 48 + v ELSE 97 + (v - 10)

\* parseInt of one hex digit; -1 stands for NaN.
HexValue(c) ==
  IF c >= 48 /\ c <= 57 THEN c - 48
  ELSE IF c >= 97 /\ c <= 102 THEN c - 87
  ELSE IF c >= 65 /\ c <= 70 THEN c - 55
  ELSE -1

\* WordArray.toString(): lower-case hex of the significant bytes.
HexStringify(bytes) ==
  Tuple([i \in 1..(2 * Len(bytes)) |->
     LET b == bytes[(i + 1) \div 2]
     IN  HexDigit(IF i % 2 = 1 THEN b \div 16 ELSE b % 16)])

IsHex(text) == Len(text) % 2 = 0 /\ \A i \in 1..Len(text) : HexValue(text[i]) >= 0

\* CryptoJS.enc.Hex.parse on well-formed hex text: one byte per two digits.
HexParse(text) ==
  Tuple([i \in 1..(Len(text) \div 2) |->
           16 * HexValue(text[2 * i - 1]) + HexValue(text[2 * i])])

(***************************************************************************)
(* Base64: btoa, atob and CryptoJS.enc.Base64                              *)
(***************************************************************************)

ChQuote == 34
ChBackslash == 92
ChPlus == Ord("+")
ChMinus == Ord("-")
ChSlash == Ord("/")
ChEquals == Ord("=")
ChUnderscore == Ord("_")

B64Char(v) ==
  IF v < 26 THEN 65 + v
  ELSE IF v < 52 THEN 97 + (v - 26)
  ELSE IF v < 62 THEN 48 + (v - 52)
  ELSE IF v = 62 THEN ChPlus ELSE ChSlash

\* The 6-bit value of a base64 character, -1 when it is none.
B64Value(c) ==
  IF c >= 65 /\ c <= 90 THEN c - 65
  ELSE IF c >= 97 /\ c <= 122 THEN c - 71
  ELSE IF c >= 48 /\ c <= 57 THEN c + 4
  ELSE IF c = ChPlus THEN 62
  ELSE IF c = ChSlash THEN 63
  ELSE -1

\* Standard base64 with '=' padding of a byte sequence.
B64Encode(bytes) ==
  LET n == Len(bytes)
      at(i) == IF i <= n THEN bytes[i] ELSE 0
      groups == (n + 2) \div 3
      sextet(g, k) ==
        LET t == at(3 * g - 2) * 65536 + at(3 * g - 1) * 256 + at(3 * g)
        IN  (t \div Pow2(18 - 6 * k)) % 64
  IN  Tuple([i \in 1..(4 * groups) |->
         LET g == (i + 3) \div 4
             k == (i - 1) % 4
         IN  \* character k of group g exists when byte floor(3k/4) of it does
             IF 3 * (g - 1) + ((3 * k + 3) \div 4) <= n
             THEN B64Char(sextet(g, k)) ELSE ChEquals])

\* The bytes of base64 text without padding: character pairs (i-1, i) with
\* i % 4 # 0 give one byte each; left-over bits are dropped.  A lenient
\* reading takes a character outside the alphabet as zero bits.
B64Bytes(data, lenient) ==
  LET n == Len(data)
      val(c) == IF lenient /\ B64Value(c) < 0 THEN 0 ELSE B64Value(c)
      nBytes == 3 * (n \div 4) + (IF n % 4 = 0 THEN 0 ELSE (n % 4) - 1)
  IN  Tuple([b \in 1..nBytes |->
         LET g == (b - 1) \div 3
             k == (b - 1) % 3
             c1 == val(data[4 * g + k + 1])
             c2 == val(data[4 * g + k + 2])
         IN  ((c1 * Pow2(2 * (k + 1))) % 256) + (c2 \div Pow2(4 - 2 * k))])

\* btoa(binaryString): throws on a character above 255.
BtoaThrows(bin) == \E i \in 1..Len(bin) : bin[i] > 255
Btoa(bin) == B64Encode(bin)

IsAsciiSpace(c) == c \in {9, 10, 12, 13, 32}

\* atob: forgiving-base64 decode.  Whitespace is removed; when the length is
\* a multiple of 4 up to two trailing '=' are removed; a length of 1 modulo 4
\* or a character outside the alphabet is an InvalidCharacterError.
AtobData(text) ==
  LET t == SelectSeq(text, LAMBDA c : ~IsAsciiSpace(c))
      n == Len(t)
      cut == IF n % 4 = 0 /\ n >= 1 /\ t[n] = ChEquals
             THEN (IF n >= 2 /\ t[n - 1] = ChEquals THEN 2 ELSE 1)
             ELSE 0
  IN  SubSeq(t, 1, n - cut)

AtobThrows(text) ==
  LET d == AtobData(text)
  IN  Len(d) % 4 = 1 \/ \E i \in 1..Len(d) : B64Value(d[i]) < 0

Atob(text) == B64Bytes(AtobData(text), FALSE)

FirstIndex(text, c) ==
  IF \E i \in 1..Len(text) : text[i] = c
  THEN CHOOSE i \in 1..Len(text) : text[i] = c /\ \A j \in 1..(i - 1) : text[j] # c
  ELSE 0

\* CryptoJS.enc.Base64.stringify of the significant bytes.
CryptoB64Stringify(bytes) == B64Encode(bytes)

\* CryptoJS.enc.Base64.parse: the text is cut at the first '=', a character
\* outside the alphabet contributes zero bits, nothing is rejected.
CryptoB64Parse(text) ==
  LET p == FirstIndex(text, ChEquals)
      data == IF p = 0 THEN text ELSE SubSeq(text, 1, p - 1)
  IN  B64Bytes(data, TRUE)


(***************************************************************************)
(* UTF-8: unescape(encodeURIComponent(s)) and decodeURIComponent(escape(b)) *)
(***************************************************************************)

Utf8Unit(c) ==
  IF c < 128 THEN <<c>>
  ELSE IF c < 2048 THEN <<192 + (c \div 64), 128 + (c % 64)>>
  ELSE <<224 + (c \div 4096), 128 + ((c \div 64) % 64), 128 + (c % 64)>>

RECURSIVE Utf8EncodeFrom(_, _)
Utf8EncodeFrom(text, i) ==
  IF i > Len(text) THEN <<>> ELSE Utf8Unit(text[i]) \o Utf8EncodeFrom(text, i + 1)

\* unescape(encodeURIComponent(text)): the UTF-8 bytes of the text as a
\* binary string (ASCII text is its own encoding).
Utf8Encode(text) ==
  IF \A i \in 1..Len(text) : text[i] < 128 THEN text ELSE Utf8EncodeFrom(text, 1)

IsCont(bin, i) == i <= Len(bin) /\ bin[i] >= 128 /\ bin[i] < 192

\* The number of bytes of the well-formed UTF-8 sequence starting at i, 0 when
\* there is none (decodeURIComponent throws URIError there).
Utf8SeqLen(bin, i) ==
  LET b == bin[i]
  IN  IF b < 128 THEN 1
      ELSE IF b >= 194 /\ b < 224 /\ IsCont(bin, i + 1) THEN 2
      ELSE IF b >= 224 /\ b < 240 /\ IsCont(bin, i + 1) /\ IsCont(bin, i + 2)
              /\ (b # 224 \/ bin[i + 1] >= 160)
              /\ (b # 237 \/ bin[i + 1] < 160) THEN 3
      ELSE IF b >= 240 /\ b < 245 /\ IsCont(bin, i + 1) /\ IsCont(bin, i + 2)
              /\ IsCont(bin, i + 3)
              /\ (b # 240 \/ bin[i + 1] >= 144)
              /\ (b # 244 \/ bin[i + 1] < 144) THEN 4
      ELSE 0

Utf8Units(bin, i, n) ==
  IF n = 1 THEN <<bin[i]>>
  ELSE IF n = 2 THEN <<(bin[i] % 32) * 64 + (bin[i + 1] % 64)>>
  ELSE IF n = 3 THEN <<(bin[i] % 16) * 4096 + (bin[i + 1] % 64) * 64 + (bin[i + 2] % 64)>>
  ELSE LET cp == (bin[i] % 8) * 262144 + (bin[i + 1] % 64) * 4096
                 + (bin[i + 2] % 64) * 64 + (bin[i + 3] % 64) - 65536
       IN  <<55296 + (cp \div 1024), 56320 + (cp % 1024)>>

RECURSIVE Utf8Malformed(_, _)
Utf8Malformed(bin, i) ==
  IF i > Len(bin) THEN FALSE
  ELSE LET n == Utf8SeqLen(bin, i)
       IN  n = 0 \/ Utf8Malformed(bin, i + n)

RECURSIVE Utf8DecodeFrom(_, _)
Utf8DecodeFrom(bin, i) ==
  IF i > Len(bin) THEN <<>>
  ELSE LET n == Utf8SeqLen(bin, i)
       IN  Utf8Units(bin, i, n) \o Utf8DecodeFrom(bin, i + n)

\* decodeURIComponent(escape(bin)) throws URIError on malformed UTF-8.
Utf8DecodeThrows(bin) ==
  (\E i \in 1..Len(bin) : bin[i] >= 128) /\ Utf8Malformed(bin, 1)

Utf8Decode(bin) ==
  IF \A i \in 1..Len(bin) : bin[i] < 128 THEN bin ELSE Utf8DecodeFrom(bin, 1)

(***************************************************************************)
(* JSON.stringify of the envelope object and JSON.parse                    *)
(***************************************************************************)

RECURSIVE Digits(_)
\* The decimal digits of a natural number.
Digits(n) == IF n < 10 THEN <<48 + n>> ELSE Append(Digits(n \div 10), 48 + (n % 10))

JsonEscapeChar(c) ==
  IF c = ChQuote \/ c = ChBackslash THEN <<ChBackslash, c>> ELSE <<c>>

RECURSIVE JsonEscapeFrom(_, _)
JsonEscapeFrom(text, i) ==
  IF i > Len(text) THEN <<>> ELSE JsonEscapeChar(text[i]) \o JsonEscapeFrom(text, i + 1)

\* A JSON string literal (the texts of an envelope hold no control character).
JsonQuote(text) ==
  <<ChQuote>>
  \o (IF \A i \in 1..Len(text) : text[i] # ChQuote /\ text[i] # ChBackslash
      THEN text ELSE JsonEscapeFrom(text, 1))
  \o <<ChQuote>>

\* JSON.stringify({k, i, d, s}): the members in insertion order, no spaces.
JsonStringify(combined) ==
  Str(<<"{">>) \o JsonQuote(Str(<<"k">>)) \o Str(<<":">>) \o JsonQuote(combined.k)
  \o Str(<<",">>) \o JsonQuote(Str(<<"i">>)) \o Str(<<":">>) \o JsonQuote(combined.i)
  \o Str(<<",">>) \o JsonQuote(Str(<<"d">>)) \o Str(<<":">>) \o JsonQuote(combined.d)
  \o Str(<<",">>) \o JsonQuote(Str(<<"s">>)) \o Str(<<":">>) \o Digits(combined.s)
  \o Str(<<"}">>)

\* JavaScript values as they come out of JSON.parse, and undefined.
JsValue(t, str, num, fields) == [t |-> t, str |-> str, num |-> num, fields |-> fields]
JsUndefined == JsValue("undefined", <<>>, 0, <<>>)
JsNull == JsValue("null", <<>>, 0, <<>>)
JsString(text) == JsValue("string", text, 0, <<>>)
JsNumber(n) == JsValue("number", <<>>, n, <<>>)
JsBoolean(b) == JsValue(IF b THEN "true" ELSE "false", <<>>, 0, <<>>)
JsObject(fields) == JsValue("object", <<>>, 0, fields)
JsArray(items) == JsValue("array", <<>>, 0, items)

ParseFail == [ok |-> FALSE, v |-> JsUndefined, next |-> 0]
ParseOk(v, next) == [ok |-> TRUE, v |-> v, next |-> next]

IsJsonSpace(c) == c \in {9, 10, 13, 32}
IsDigit(c) == c >= 48 /\ c <= 57

RECURSIVE SkipWs(_, _)
SkipWs(t, i) == IF i <= Len(t) /\ IsJsonSpace(t[i]) THEN SkipWs(t, i + 1) ELSE i

HasAt(t, i, lit) == i + Len(lit) - 1 <= Len(t) /\ \A j \in 1..Len(lit) : t[i + j - 1] = lit[j]

JsonSimpleEscape(e) ==
  IF e = Ord("b") THEN 8 ELSE IF e = Ord("f") THEN 12 ELSE IF e = Ord("n") THEN 10
  ELSE IF e = Ord("r") THEN 13 ELSE IF e = Ord("t") THEN 9
  ELSE IF e \in {ChQuote, ChBackslash, ChSlash} THEN e ELSE -1

RECURSIVE ParseStringBody(_, _, _)
\* The rest of a string literal whose opening quote precedes position i.
ParseStringBody(t, i, acc) ==
  IF i > Len(t) \/ t[i] < 32 THEN ParseFail
  ELSE IF t[i] = ChQuote THEN ParseOk(JsString(acc), i + 1)
  ELSE IF t[i] # ChBackslash THEN ParseStringBody(t, i + 1, Append(acc, t[i]))
  ELSE IF i + 1 > Len(t) THEN ParseFail
  ELSE IF JsonSimpleEscape(t[i + 1]) >= 0
       THEN ParseStringBody(t, i + 2, Append(acc, JsonSimpleEscape(t[i + 1])))
  ELSE IF t[i + 1] = Ord("u") /\ i + 5 <= Len(t)
          /\ \A j \in 2..5 : HexValue(t[i + j]) >= 0
       THEN ParseStringBody(t, i + 6,
              Append(acc, 4096 * HexValue(t[i + 2]) + 256 * HexValue(t[i + 3])
                          + 16 * HexValue(t[i + 4]) + HexValue(t[i + 5])))
  ELSE ParseFail

\* A string literal without escapes ends at the next quote.
ParseString(t, i) ==
  LET rest == {j \in (i + 1)..Len(t) : t[j] = ChQuote \/ t[j] = ChBackslash \/ t[j] < 32}
      stop == CHOOSE j \in rest : \A m \in rest : j <= m
  IN  IF rest # {} /\ t[stop] = ChQuote
      THEN ParseOk(JsString(SubSeq(t, i + 1, stop - 1)), stop + 1)
      ELSE ParseStringBody(t, i + 1, <<>>)

RECURSIVE ParseDigits(_, _, _)
ParseDigits(t, i, acc) ==
  IF i <= Len(t) /\ IsDigit(t[i]) THEN ParseDigits(t, i + 1, 10 * acc + (t[i] - 48))
  ELSE [num |-> acc, next |-> i]

\* An integer literal: -? (0 | [1-9][0-9]*).  Fractions and exponents are
\* outside the numbers an envelope holds and are not parsed.
ParseNumber(t, i) ==
  LET neg == t[i] = ChMinus
      j == IF neg THEN i + 1 ELSE i
  IN  IF j > Len(t) \/ ~IsDigit(t[j]) THEN ParseFail
      ELSE IF t[j] = 48 THEN ParseOk(JsNumber(0), j + 1)
      ELSE LET d == ParseDigits(t, j, 0)
           IN  ParseOk(JsNumber(IF neg THEN 0 - d.num ELSE d.num), d.next)

RECURSIVE ParseValue(_, _)
RECURSIVE ParseMembers(_, _, _)
RECURSIVE ParseItems(_, _, _)

\* The members of an object after '{' or ',': "key" : value, then ',' or '}'.
ParseMembers(t, i, acc) ==
  LET ks == SkipWs(t, i)
  IN  IF ks > Len(t) \/ t[ks] # ChQuote THEN ParseFail
      ELSE LET k == ParseString(t, ks)
               c == IF k.ok THEN SkipWs(t, k.next) ELSE 0
           IN  IF ~k.ok \/ c > Len(t) \/ t[c] # Ord(":") THEN ParseFail
               ELSE LET v == ParseValue(t, SkipWs(t, c + 1))
                        e == IF v.ok THEN SkipWs(t, v.next) ELSE 0
                        more == Append(acc, [key |-> k.v.str, val |-> v.v])
                    IN  IF ~v.ok \/ e > Len(t) THEN ParseFail
                        ELSE IF t[e] = Ord(",") THEN ParseMembers(t, e + 1, more)
                        ELSE IF t[e] = Ord("}") THEN ParseOk(JsObject(more), e + 1)
                        ELSE ParseFail

\* The items of an array after '[' or ','.
ParseItems(t, i, acc) ==
  LET v == ParseValue(t, SkipWs(t, i))
      e == IF v.ok THEN SkipWs(t, v.next) ELSE 0
      more == Append(acc, [key |-> <<>>, val |-> v.v])
  IN  IF ~v.ok \/ e > Len(t) THEN ParseFail
      ELSE IF t[e] = Ord(",") THEN ParseItems(t, e + 1, more)
      ELSE IF t[e] = Ord("]") THEN ParseOk(JsArray(more), e + 1)
      ELSE ParseFail

ParseValue(t, i) ==
  IF i > Len(t) THEN ParseFail
  ELSE IF t[i] = ChQuote THEN ParseString(t, i)
  ELSE IF t[i] = ChMinus \/ IsDigit(t[i]) THEN ParseNumber(t, i)
  ELSE IF HasAt(t, i, Str(<<"n", "u", "l", "l">>)) THEN ParseOk(JsNull, i + 4)
  ELSE IF HasAt(t, i, Str(<<"t", "r", "u", "e">>)) THEN ParseOk(JsBoolean(TRUE), i + 4)
  ELSE IF HasAt(t, i, Str(<<"f", "a", "l", "s", "e">>)) THEN ParseOk(JsBoolean(FALSE), i + 5)
  ELSE IF t[i] = Ord("{")
       THEN LET j == SkipWs(t, i + 1)
            IN  IF j <= Len(t) /\ t[j] = Ord("}") THEN ParseOk(JsObject(<<>>), j + 1)
                ELSE ParseMembers(t, i + 1, <<>>)
  ELSE IF t[i] = Ord("[")
       THEN LET j == SkipWs(t, i + 1)
            IN  IF j <= Len(t) /\ t[j] = Ord("]") THEN ParseOk(JsArray(<<>>), j + 1)
                ELSE ParseItems(t, i + 1, <<>>)
  ELSE ParseFail

\* JSON.parse(text): one value, nothing but white space around it; a
\* SyntaxError otherwise (ok = FALSE).
JsonParseEnd(text, r) ==
  IF r.ok /\ SkipWs(text, r.next) = Len(text) + 1 THEN r ELSE ParseFail

JsonParse(text) == JsonParseEnd(text, ParseValue(text, SkipWs(text, 1)))

\* value.name for a parsed value: the last member of that name of an object,
\* undefined on any other non-null value.  (On null the access throws.)
GetProp(v, name) ==
  LET hits == {j \in 1..Len(v.fields) : v.fields[j].key = name}
  IN  IF v.t # "object" \/ hits = {} THEN JsUndefined
      ELSE v.fields[CHOOSE j \in hits : \A m \in hits : m <= j].val

\* !value
Falsy(v) ==
  \/ v.t \in {"undefined", "null", "false"}
  \/ v.t = "string" /\ v.str = <<>>
  \/ v.t = "number" /\ v.num = 0

(***************************************************************************)
(* AES-256 in CBC mode with PKCS#7 padding (CryptoJS.AES)                  *)
(*                                                                         *)
(* The block transform is a library primitive.  It is modelled by what the *)
(* code relies on: for each 32-byte key a permutation of the 16-byte       *)
(* blocks, with its inverse, in which a change of the key or of any byte   *)
(* of the input spreads over the output block.  The stand-in is a          *)
(* four-round Feistel network keyed by the four quarters of the key.       *)
(***************************************************************************)

BlockSize == 16
KeyBytes == 32
IvBytes == 16
HalfBlock == BlockSize \div 2

RoundKey(key, r) == Slice(key, HalfBlock * (r - 1) + 1, HalfBlock * r)

FeistelF(half, rk) ==
  LET w == half[1] + 3 * half[2] + 5 * half[3] + 7 * half[4]
           + 9 * half[5] + 11 * half[6] + 13 * half[7] + 15 * half[8]
  IN  Tuple([i \in 1..HalfBlock |-> (w + rk[i] + 17 * i) % 256])

FeistelRound(st, rk) == [l |-> st.r, r |-> XorBytes(st.l, FeistelF(st.r, rk))]

FeistelUnround(st, rk) == [l |-> XorBytes(st.r, FeistelF(st.l, rk)), r |-> st.l]

\* One block through the cipher with the given key.
AesEncryptBlock(key, block) ==
  LET s0 == [l |-> Slice(block, 1, HalfBlock), r |-> Slice(block, HalfBlock + 1, BlockSize)]
      s1 == FeistelRound(s0, RoundKey(key, 1))
      s2 == FeistelRound(s1, RoundKey(key, 2))
      s3 == FeistelRound(s2, RoundKey(key, 3))
      s4 == FeistelRound(s3, RoundKey(key, 4))
  IN  s4.l \o s4.r

\* The inverse permutation.
AesDecryptBlock(key, block) ==
  LET s4 == [l |-> Slice(block, 1, HalfBlock), r |-> Slice(block, HalfBlock + 1, BlockSize)]
      s3 == FeistelUnround(s4, RoundKey(key, 4))
      s2 == FeistelUnround(s3, RoundKey(key, 3))
      s1 == FeistelUnround(s2, RoundKey(key, 2))
      s0 == FeistelUnround(s1, RoundKey(key, 1))
  IN  s0.l \o s0.r

\* CryptoJS.pad.Pkcs7.pad: 1..16 bytes, each holding the number of them.
Pkcs7Pad(bytes) ==
  LET nPaddingBytes == BlockSize - (Len(bytes) % BlockSize)
  IN  bytes \o Repeat(nPaddingBytes, nPaddingBytes)

BlockAt(data, b) == Slice(data, BlockSize * (b - 1) + 1, BlockSize * b)

RECURSIVE CbcEncryptFrom(_, _, _, _)
\* CryptoJS.mode.CBC encryptor: block b and the blocks after it, prev being
\* the cipher block before (the IV for the first).
CbcEncryptFrom(key, prev, data, b) ==
  IF BlockSize * b > Len(data) THEN <<>>
  ELSE LET c == AesEncryptBlock(key, XorBytes(BlockAt(data, b), prev))
       IN  c \o CbcEncryptFrom(key, c, data, b + 1)

CbcEncrypt(key, iv, data) == CbcEncryptFrom(key, iv, data, 1)

RECURSIVE CbcDecryptFrom(_, _, _, _)
\* CryptoJS.mode.CBC decryptor: block b and the blocks after it.
CbcDecryptFrom(key, prev, data, b) ==
  IF BlockSize * b > Len(data) THEN <<>>
  ELSE LET c == BlockAt(data, b)
       IN  XorBytes(AesDecryptBlock(key, c), prev) \o CbcDecryptFrom(key, c, data, b + 1)

CbcDecrypt(key, iv, data) == CbcDecryptFrom(key, iv, data, 1)

\* CryptoJS.AES.encrypt(wordArray, key, {iv, CBC, Pkcs7}).toString(): the key
\* is a WordArray, so no salt is derived and the text is the base64 of the
\* cipher bytes alone.
AesEncryptToString(wordArray, key, iv) ==
  LET data == SubSeq(WordBytes(wordArray.words), 1, wordArray.sigBytes)
  IN  CryptoB64Stringify(CbcEncrypt(key, iv, Pkcs7Pad(data)))

Salted == Str(<<"S", "a", "l", "t", "e", "d", "_", "_">>)

\* CryptoJS.format.OpenSSL.parse: base64 text to cipher bytes; a text whose
\* bytes start with "Salted__" loses its first four words.
OpenSslStrip(raw) ==
  IF Len(raw) >= 8 /\ SubSeq(raw, 1, 8) = Salted
  THEN SubSeq(raw, 4 * 4 + 1, Len(raw)) ELSE raw

OpenSslParse(text) == OpenSslStrip(CryptoB64Parse(text))

\* CryptoJS.AES.decrypt(text, key, {iv, CBC, Pkcs7}): the WordArray of the
\* decrypted blocks.  The decryptor flushes, so a trailing partial block is
\* processed with its missing bytes read as zero; Pkcs7.unpad only lowers
\* sigBytes by the low byte of the last significant word and checks nothing,
\* so words keeps the padding and nothing is thrown.
ZeroFill(cipher) ==
  LET n == Len(cipher)
      whole == BlockSize * ((n + BlockSize - 1) \div BlockSize)
  IN  cipher \o Repeat(0, whole - n)

\* CryptoJS.pad.Pkcs7.unpad on the decrypted words, n bytes of them significant.
Pkcs7Unpad(words, n) ==
  LET nPaddingBytes == IF n = 0 THEN 0 ELSE WordByte(words[((n - 1) \div 4) + 1], 3)
  IN  [words |-> words, sigBytes |-> n - nPaddingBytes]

AesDecryptCipher(cipher, key, iv) ==
  Pkcs7Unpad(WordArrayCreate(CbcDecrypt(key, iv, ZeroFill(cipher))).words, Len(cipher))

AesDecrypt(text, key, iv) == AesDecryptCipher(OpenSslParse(text), key, iv)

(***************************************************************************)
(* encryptFile and decryptFile as functions of their inputs                *)
(***************************************************************************)

MAX_FILE_SIZE == 10 * 1024 * 1024

SizeMessage == "File size exceeds 10MB limit"
EncryptFailedMessage == "Failed to encrypt file. Please try again with a smaller file."
NoDataMessage == "No data provided for decryption"
FormatMessage == "Invalid file data format"
StructureMessage == "Invalid file data structure"
IncompleteMessage == "Incomplete file data"
NullAccessMessage == "Cannot read properties of null (reading 'k')"
DecryptPrefix == "Failed to decrypt file: "
DefaultMimeType == "application/octet-stream"
DefaultFileName == "downloaded-file"

\* Two size checks that differ from the one of the code at the boundary.
SizeCheckInclusive(size) == size >= MAX_FILE_SIZE
SizeCheckLate(size) == size > MAX_FILE_SIZE + 1

\* if (file.size > MAX_FILE_SIZE) throw
SizeCheckThrows(size) == size > MAX_FILE_SIZE

\* catch (error): the message of the error encryptFile rejects with.
EncryptCatch(message) ==
  IF message = SizeMessage THEN message ELSE EncryptFailedMessage

RECURSIVE StripTrailingEquals(_)
\* .replace(/=+$/, '')
StripTrailingEquals(text) ==
  IF Len(text) > 0 /\ text[Len(text)] = ChEquals
  THEN StripTrailingEquals(SubSeq(text, 1, Len(text) - 1)) ELSE text

\* The two replacements without the removal of the padding.
UrlSafeNoStrip(b64) ==
  Tuple([i \in 1..Len(b64) |->
    IF b64[i] = ChPlus THEN ChMinus
    ELSE IF b64[i] = ChSlash THEN ChUnderscore ELSE b64[i]])

\* .replace(/\+/g, '-').replace(/\//g, '_').replace(/=+$/, '')
UrlSafe(b64) ==
  StripTrailingEquals(Tuple([i \in 1..Len(b64) |->
    IF b64[i] = ChPlus THEN ChMinus
    ELSE IF b64[i] = ChSlash THEN ChUnderscore ELSE b64[i]]))

\* An object whose s is the size after padding.
CombinedPadded(bytes, key, iv) ==
  LET wordArray == WordArrayCreate(bytes)
  IN  [k |-> HexStringify(key),
       i |-> HexStringify(iv),
       d |-> AesEncryptToString(wordArray, key, iv),
       s |-> BlockSize * ((wordArray.sigBytes \div BlockSize) + 1)]

\* The object assembled from the key, the IV, the cipher text and the size.
Combined(bytes, key, iv) ==
  LET wordArray == WordArrayCreate(bytes)
  IN  [k |-> HexStringify(key),
       i |-> HexStringify(iv),
       d |-> AesEncryptToString(wordArray, key, iv),
       s |-> wordArray.sigBytes]

\* btoa(unescape(encodeURIComponent(jsonString))) made URL-safe.
TransportEncode(jsonString) == UrlSafe(Btoa(Utf8Encode(jsonString)))

\* JSON.stringify followed by the transport encoding.
EnvelopeOf(combined) == TransportEncode(JsonStringify(combined))

\* The string encryptFile returns for the bytes read, with the key and the IV
\* drawn in this call.
EncryptedEnvelope(bytes, key, iv) == EnvelopeOf(Combined(bytes, key, iv))

\* A reversal that appends no padding.
PadNone(text) == text

RECURSIVE PadToFour(_)
\* while (standardBase64.length % 4) standardBase64 += '='
PadToFour(text) == IF Len(text) % 4 # 0 THEN PadToFour(Append(text, ChEquals)) ELSE text

\* base64Data.replace(/-/g, '+').replace(/_/g, '/'), then the padding loop.
RestoreBase64(text) ==
  PadToFour(Tuple([i \in 1..Len(text) |->
    IF text[i] = ChMinus THEN ChPlus
    ELSE IF text[i] = ChUnderscore THEN ChSlash ELSE text[i]]))

\* A copy of every byte of the decrypted words, padding included.
CopyBytesAll(words, sigBytes) ==
  Tuple([n \in 1..(4 * Len(words)) |-> WordByte(words[(n + 3) \div 4], (n - 1) % 4)])

\* The loop that copies sigBytes bytes out of the decrypted words; a byte
\* beyond the words stays zero.
CopyBytes(words, sigBytes) ==
  Tuple([n \in 1..sigBytes |->
    IF n <= 4 * Len(words) THEN WordByte(words[(n + 3) \div 4], (n - 1) % 4) ELSE 0])

\* words and s record decrypted.words and decryptionData.s as the loop saw
\* them.
NoDelivery ==
  [made |-> FALSE, bytes |-> <<>>, type |-> "", download |-> "",
   words |-> <<>>, s |-> 0]

Threw(message) == [thrown |-> message, delivery |-> NoDelivery]

\* A call that builds its blob and then throws.
DecryptDeliverThenThrow(decrypted, s, fileName, mimeType) ==
  [thrown |-> "Failed to save the file",
   delivery |-> [made |-> TRUE,
                 bytes |-> CopyBytes(decrypted.words, s),
                 type |-> IF mimeType = "" THEN DefaultMimeType ELSE mimeType,
                 download |-> IF fileName = "" THEN DefaultFileName ELSE fileName,
                 words |-> decrypted.words, s |-> s]]

\* A call that passes its two arguments on as they are.
DecryptDeliverNoDefaults(decrypted, s, fileName, mimeType) ==
  [thrown |-> "",
   delivery |-> [made |-> TRUE,
                 bytes |-> CopyBytes(decrypted.words, s),
                 type |-> mimeType,
                 download |-> fileName,
                 words |-> decrypted.words, s |-> s]]

\* The blob, its type and the download name of a successful call.
DecryptDeliver(decrypted, s, fileName, mimeType) ==
  [thrown |-> "",
   delivery |-> [made |-> TRUE,
                 bytes |-> CopyBytes(decrypted.words, s),
                 type |-> IF mimeType = "" THEN DefaultMimeType ELSE mimeType,
                 download |-> IF fileName = "" THEN DefaultFileName ELSE fileName,
                 words |-> decrypted.words, s |-> s]]

\* if (!k || !i || !d || !s) throw; then the parsing of key and IV, the
\* decryption and new Uint8Array(s), which throws a RangeError on a negative
\* length.  Past the field check the model takes k, i and d to be strings
\* and s a number.
DecryptFields(k, i, d, s, fileName, mimeType) ==
  IF Falsy(k) \/ Falsy(i) \/ Falsy(d) \/ Falsy(s) THEN Threw(IncompleteMessage)
  ELSE IF s.num < 0 THEN Threw("Invalid typed array length: " \o ToString(s.num))
  ELSE DecryptDeliver(AesDecrypt(d.str, HexParse(k.str), HexParse(i.str)), s.num,
                      fileName, mimeType)

\* decryptionData = JSON.parse(jsonString) and the reading of its members;
\* reading a member of null throws a TypeError.
DecryptParsed(parsed, fileName, mimeType) ==
  IF ~parsed.ok THEN Threw(StructureMessage)
  ELSE IF parsed.v.t = "null" THEN Threw(NullAccessMessage)
  ELSE DecryptFields(GetProp(parsed.v, Str(<<"k">>)), GetProp(parsed.v, Str(<<"i">>)),
                     GetProp(parsed.v, Str(<<"d">>)), GetProp(parsed.v, Str(<<"s">>)),
                     fileName, mimeType)

\* jsonString = decodeURIComponent(escape(binary))
DecryptBinary(bin, fileName, mimeType) ==
  IF Utf8DecodeThrows(bin) THEN Threw(FormatMessage)
  ELSE DecryptParsed(JsonParse(Utf8Decode(bin)), fileName, mimeType)

\* atob(standardBase64)
DecryptStandard(standardBase64, fileName, mimeType) ==
  IF AtobThrows(standardBase64) THEN Threw(FormatMessage)
  ELSE DecryptBinary(Atob(standardBase64), fileName, mimeType)

\* The try block of decryptFile up to the construction of the blob: either
\* the message of the error thrown in it, or the bytes, the blob type and
\* the download name it goes on to deliver.
DecryptTry(base64Data, fileName, mimeType) ==
  IF Falsy(base64Data) THEN Threw(NoDataMessage)
  ELSE DecryptStandard(RestoreBase64(base64Data.str), fileName, mimeType)

\* A catch block that rethrows the error it caught.
DecryptCatchVerbatim(message) == message

\* catch (error): the message of the error decryptFile rejects with.
DecryptCatch(message) == DecryptPrefix \o message

(***************************************************************************)
(* Inputs of the model                                                     *)
(***************************************************************************)

\* Files of 0..MaxLen bytes are listed byte by byte, in NumPatterns fillings.
MaxLen == 17
\* One longer file, of LongLen bytes, is listed too.
LongLen == 32
NumPatterns == 2
\* The random source has NumSeeds outcomes per call.
NumSeeds == 2
\* Files of MAX_FILE_SIZE - 1 .. MAX_FILE_SIZE + MaxOver bytes are given by
\* their size alone.
MaxOver == 1
\* Object URLs waiting for their release at any one time.
MaxTimers == 1

\* Filling 0 is 1, 2, 3, ...; the others hold bytes above 127 too.
Payload(n, p) == Tuple([i \in 1..n |-> (i * (2 * p + 1) + 127 * p) % 256])

\* A File: its size, its bytes (file.arrayBuffer()), its name and type.  A
\* file whose bytes the model does not list has listed = FALSE.
SmallFiles ==
  {[size |-> n, bytes |-> Payload(n, p), listed |-> TRUE,
    name |-> IF n % 4 = 3 THEN "" ELSE "notes.txt",
    type |-> IF p % 2 = 0 THEN "text/plain" ELSE ""] :
     n \in 0..MaxLen, p \in 0..(NumPatterns - 1)}

\* A file of three blocks once padded.
LongFiles ==
  {[size |-> LongLen, bytes |-> Payload(LongLen, 0), listed |-> TRUE,
    name |-> "", type |-> ""]}

LargeFiles ==
  {[size |-> MAX_FILE_SIZE + k, bytes |-> <<>>, listed |-> FALSE,
    name |-> "backup.bin", type |-> "application/octet-stream"] : k \in (0 - 1)..MaxOver}

Files == SmallFiles \cup LongFiles \cup LargeFiles
NoFile == [size |-> 0, bytes |-> <<>>, listed |-> TRUE, name |-> "", type |-> ""]

\* CryptoJS.lib.WordArray.random(nBytes): one of the outcomes of the random
\* source.
RandomBytes(nBytes, seed, salt) ==
  Tuple([i \in 1..nBytes |-> (seed * 89 + salt + i * (2 * seed + 29)) % 256])

RandomKey(seed) == RandomBytes(KeyBytes, seed, 0)
RandomIv(seed) == RandomBytes(IvBytes, seed, 101)
Seeds == 1..NumSeeds

\* Strings that are no envelope.
NotBase64 == Str(<<"n", "o", "t", "-", "b", "a", "s", "e", "6", "4", "!", "!">>)
JsonKX == <<Ord("{"), ChQuote, Ord("k"), ChQuote, Ord(":"), ChQuote, Ord("x"), ChQuote, Ord("}")>>

ForeignContents ==
  { JsUndefined, JsNull, JsString(<<>>),
    JsString(NotBase64),
    JsString(Str(<<"a", "b", "c", "d", "e">>)),
    JsString(Str(<<"_", "_", "_", "_">>)),
    JsString(TransportEncode(Str(<<"h", "e", "l", "l", "o">>))),
    JsString(TransportEncode(Str(<<"n", "u", "l", "l">>))),
    JsString(TransportEncode(Str(<<"4", "2">>))),
    JsString(TransportEncode(Str(<<"{", "}">>))),
    JsString(TransportEncode(JsonKX)) }

\* The characters a corruption writes over one character of a field.
ReplacementChars(field) ==
  IF field = "d" THEN {Ord("A"), ChEquals} ELSE {Ord("0"), Ord("f")}

\* The positions a corruption writes at: the first two characters and the
\* last four of d, the first and the last of k and of i.
CorruptPositions(field, text) ==
  IF field = "d" THEN {1, 2} \cup ((Len(text) - 3)..Len(text)) ELSE {1, Len(text)}

(***************************************************************************)
(* State                                                                   *)
(***************************************************************************)

VARIABLES
  calls,       \* the calls of encryptFile and decryptFile, by caller
  stored,      \* the row of the files table the session works with
  objectURLs,  \* the object URLs created and not revoked
  body,        \* the anchor elements appended to document.body
  timers,      \* the pending setTimeout callbacks, each holding its anchor
  upload,      \* handleFileUpload: where it stands, and the uploadLoading flag
  api,         \* the session, the profiles, api_keys and the API-key call
  db,          \* the database side: its clock, its files, the last statement
  net          \* connectionState and the calls that share it

vars == <<calls, stored, objectURLs, body, timers, upload, api, db, net>>

\* The caller of the session of one call at a time.
CallIds == {1}
\* The users that can be signed in.
Users == {1, 2}

\* The callers whose calls may overlap.
Callers == {1, 2}

NoFields == [k |-> <<>>, i |-> <<>>, d |-> <<>>, s |-> 0]
NoEnvelope == [made |-> FALSE, listed |-> TRUE, text |-> <<>>]

\* A row: its content column and its metadata.  origin, fields, plain, seed
\* and corrupted record where the content came from; the code never reads
\* them.
NoRow ==
  [present |-> FALSE, content |-> JsUndefined, name |-> "", mime_type |-> "",
   origin |-> "none", fields |-> NoFields, plain |-> <<>>, seed |-> 0,
   corrupted |-> "none", pos |-> 0]

\* A call: op and pc say where it stands, outcome how it ended ("returned"
\* or "threw"); thrown is the message of the error thrown inside the try
\* block, error the message of the error the caller receives.  read, seed and
\* encrypted record the steps of encryptFile the call has taken.
IdleCall ==
  [op |-> "idle", pc |-> "idle", outcome |-> "none",
   file |-> NoFile, row |-> NoRow,
   ret |-> NoEnvelope, fields |-> NoFields,
   thrown |-> "", error |-> "",
   read |-> FALSE, seed |-> 0, encrypted |-> FALSE,
   delivery |-> NoDelivery, url |-> 0, clicked |-> FALSE]

AllIdle == \A c \in CallIds : calls[c].pc = "idle"

\* handleFileUpload before it is invoked: uploadLoading is useState(false).
\* pc is where the handler stands, error the error of the insert it awaits.
IdleUpload ==
  [pc |-> "idle", uploadLoading |-> FALSE, file |-> NoFile, toast |-> "",
   inserted |-> FALSE, error |-> [failed |-> FALSE, message |-> ""]]

\* A call of an API-key function: its arguments, what it read at the gate,
\* the table operations it has issued and how it ended.
IdleApiCall ==
  [fn |-> "none", pc |-> "idle", name |-> "", expires_at |-> 0, id |-> 0,
   user |-> 0, sawSession |-> FALSE, sawAdmin |-> FALSE, issued |-> <<>>,
   outcome |-> "none", error |-> "", rawKey |-> <<>>, returned |-> <<>>,
   result |-> {}]

\* Nobody signed in, no administrator, no key.
IdleApi ==
  [session |-> 0, profiles |-> [u \in Users |-> "user"], keys |-> {},
   call |-> IdleApiCall]

\* The database before any statement: time 1 (0 stands for a NULL
\* timestamp), no file of any user.
NoStatement ==
  [fn |-> "none", uid |-> 0, admin |-> FALSE, api_key |-> <<>>, raised |-> "",
   rows |-> {}, ids |-> {}, old |-> {}, new |-> {}, admin_id |-> 0,
   at |-> 0, matched |-> {}]

IdleTxn == [pc |-> "idle", st |-> NoStatement]

IdleDb == [now |-> 1, files |-> {}, txn |-> IdleTxn, last |-> NoStatement]

\* The callers of initializeSupabase and supabaseQuery that run side by
\* side: the call at module load, the App (its init effect and its reconnect
\* interval) and one supabaseQuery.
Procs == {"load", "app", "query"}

NoError == [message |-> "", attempt |-> 0]

IdleProc ==
  [pc |-> "idle", attempt |-> 0, invocations |-> 0, waits |-> <<>>, results |-> <<>>,
   outcome |-> "none", error |-> NoError, data |-> 0, rounds |-> 0]

\* connectionState as the module creates it ("null" for a null lastError),
\* and no call under way.
IdleNet ==
  [isConnected |-> FALSE, lastError |-> "null", retryCount |-> 0,
   procs |-> [p \in Procs |-> IdleProc]]

Init ==
  /\ calls = [c \in Callers |-> IdleCall]
  /\ stored = NoRow
  /\ objectURLs = {}
  /\ body = {}
  /\ timers = {}
  /\ upload = IdleUpload
  /\ api = IdleApi
  /\ db = IdleDb
  /\ net = IdleNet

(***************************************************************************)
(* encryptFile                                                             *)
(***************************************************************************)

\* The call up to its await: the size check and, when it passes, the request
\* to read the file.  A failed check is caught and rethrown at once.
EncryptFileStartCall(c, f) ==
  /\ calls[c].pc = "idle"
  /\ ~stored.present
  /\ calls' = [calls EXCEPT ![c] =
       IF SizeCheckThrows(f.size)
       THEN [IdleCall EXCEPT !.op = "encrypt", !.pc = "done", !.file = f,
                             !.outcome = "threw", !.thrown = SizeMessage,
                             !.error = EncryptCatch(SizeMessage)]
       ELSE [IdleCall EXCEPT !.op = "encrypt", !.pc = "reading", !.file = f,
                             !.read = TRUE]]

\* The call made by a caller other than handleFileUpload.
EncryptFileStart(c, f) ==
  /\ EncryptFileStartCall(c, f)
  /\ UNCHANGED <<stored, objectURLs, body, timers, upload, api, db, net>>

\* A call that encrypts with the key and IV another call has drawn, when one
\* has.
EncryptFileResumeShared(c, seed) ==
  /\ calls[c].op = "encrypt" /\ calls[c].pc = "reading"
  /\ LET f == calls[c].file
         drawn == {calls[o].seed : o \in {o \in Callers \ {c} : calls[o].seed # 0}}
         used == IF drawn = {} THEN seed ELSE CHOOSE d \in drawn : TRUE
     IN  \E combined \in {IF f.listed
                          THEN Combined(f.bytes, RandomKey(used), RandomIv(used))
                          ELSE [NoFields EXCEPT !.s = f.size]} :
         calls' = [calls EXCEPT ![c] =
           [@ EXCEPT !.pc = "done", !.outcome = "returned",
                     !.seed = seed, !.encrypted = TRUE, !.fields = combined,
                     !.ret = [made |-> TRUE, listed |-> f.listed,
                              text |-> IF f.listed THEN EnvelopeOf(combined) ELSE <<>>]]]
  /\ UNCHANGED <<stored, objectURLs, body, timers, upload, api, db, net>>

\* The rest of the call once the bytes are read: key and IV are drawn, the
\* bytes encrypted, the envelope assembled, encoded and returned.  For a file
\* given by its size alone the text of the envelope is not listed either.
EncryptFileResume(c, seed) ==
  /\ calls[c].op = "encrypt" /\ calls[c].pc = "reading"
  /\ LET f == calls[c].file
     IN  \E combined \in {IF f.listed
                          THEN Combined(f.bytes, RandomKey(seed), RandomIv(seed))
                          ELSE [NoFields EXCEPT !.s = f.size]} :
         calls' = [calls EXCEPT ![c] =
           [@ EXCEPT !.pc = "done", !.outcome = "returned",
                     !.seed = seed, !.encrypted = TRUE, !.fields = combined,
                     !.ret = [made |-> TRUE, listed |-> f.listed,
                              text |-> IF f.listed THEN EnvelopeOf(combined) ELSE <<>>]]]
  /\ UNCHANGED <<stored, objectURLs, body, timers, upload, api, db, net>>

\* file.arrayBuffer() rejects: the catch block replaces the message.
EncryptFileReadFails(c) ==
  /\ calls[c].op = "encrypt" /\ calls[c].pc = "reading"
  /\ calls' = [calls EXCEPT ![c] =
       [@ EXCEPT !.pc = "done", !.outcome = "threw",
                 !.thrown = "The requested file could not be read",
                 !.error = EncryptCatch("The requested file could not be read")]]
  /\ UNCHANGED <<stored, objectURLs, body, timers, upload, api, db, net>>

(***************************************************************************)
(* The storage collaborator                                                *)
(***************************************************************************)

\* The caller stores the envelope it received as the content of a row.
Insert(c) ==
  /\ calls[c].op = "encrypt" /\ calls[c].pc = "done"
  /\ calls[c].outcome = "returned" /\ calls[c].ret.listed
  /\ ~stored.present
  /\ stored' = [present |-> TRUE, content |-> JsString(calls[c].ret.text),
                name |-> calls[c].file.name, mime_type |-> calls[c].file.type,
                origin |-> "encode", fields |-> calls[c].fields,
                plain |-> calls[c].file.bytes, seed |-> calls[c].seed,
                corrupted |-> "none", pos |-> 0]
  /\ calls' = [calls EXCEPT ![c] = IdleCall]
  /\ UNCHANGED <<objectURLs, body, timers, upload, api, db, net>>

\* The caller is done with the outcome of a call.
Settle(c) ==
  /\ calls[c].pc = "done"
  /\ calls' = [calls EXCEPT ![c] = IdleCall]
  /\ UNCHANGED <<stored, objectURLs, body, timers, upload, api, db, net>>

\* A row whose content no encryptFile call produced.
ForeignRow(content) ==
  /\ AllIdle /\ ~stored.present
  /\ stored' = [NoRow EXCEPT !.present = TRUE, !.content = content, !.origin = "foreign"]
  /\ UNCHANGED <<calls, objectURLs, body, timers, upload, api, db, net>>

\* One character of the k, i or d member of a stored envelope is replaced.
Corrupt(field, pos, ch) ==
  /\ AllIdle /\ timers = {}
  /\ stored.present /\ stored.origin = "encode" /\ stored.corrupted = "none"
  /\ pos \in CorruptPositions(field, stored.fields[field])
  /\ stored.fields[field][pos] # ch
  /\ \E changed \in {[stored.fields EXCEPT ![field][pos] = ch]} :
         stored' = [stored EXCEPT !.fields = changed,
                                  !.content = JsString(EnvelopeOf(changed)),
                                  !.corrupted = field, !.pos = pos]
  /\ UNCHANGED <<calls, objectURLs, body, timers, upload, api, db, net>>

DeleteRow ==
  /\ AllIdle /\ timers = {}
  /\ stored.present
  /\ stored' = NoRow
  /\ UNCHANGED <<calls, objectURLs, body, timers, upload, api, db, net>>

(***************************************************************************)
(* decryptFile                                                             *)
(***************************************************************************)

NewUrl == CHOOSE u \in 1..(Cardinality(objectURLs) + 1) : u \notin objectURLs

\* A call that revokes the URL right after the click, without a timer.
DecryptFileRevokeNow(c) ==
  /\ calls[c].pc = "idle"
  /\ stored.present
  /\ Cardinality(timers) < MaxTimers
  /\ \E r \in {DecryptTry(stored.content, stored.name, stored.mime_type)},
        url \in {NewUrl} :
       LET failed == r.thrown # ""
       IN  calls' = [calls EXCEPT ![c] =
                 [IdleCall EXCEPT !.op = "decrypt", !.pc = "done", !.row = stored,
                                  !.outcome = IF failed THEN "threw" ELSE "returned",
                                  !.thrown = r.thrown,
                                  !.error = IF failed THEN DecryptCatch(r.thrown) ELSE "",
                                  !.delivery = r.delivery,
                                  !.url = IF r.delivery.made THEN url ELSE 0,
                                  !.clicked = r.delivery.made]]
  /\ UNCHANGED <<stored, objectURLs, body, timers, upload, api, db, net>>

\* The whole call (it has no await): the try block, then either the catch
\* block or the blob, its object URL, the hidden anchor appended to the body
\* and clicked, and the timer that will clean up.
DecryptFile(c) ==
  /\ calls[c].pc = "idle"
  /\ stored.present
  /\ Cardinality(timers) < MaxTimers
  /\ \E r \in {DecryptTry(stored.content, stored.name, stored.mime_type)},
        url \in {NewUrl} :
       LET a == [href |-> url, download |-> r.delivery.download]
           failed == r.thrown # ""
       IN  /\ calls' = [calls EXCEPT ![c] =
                 [IdleCall EXCEPT !.op = "decrypt", !.pc = "done", !.row = stored,
                                  !.outcome = IF failed THEN "threw" ELSE "returned",
                                  !.thrown = r.thrown,
                                  !.error = IF failed THEN DecryptCatch(r.thrown) ELSE "",
                                  !.delivery = r.delivery,
                                  !.url = IF r.delivery.made THEN url ELSE 0,
                                  !.clicked = r.delivery.made]]
           /\ IF r.delivery.made
              THEN /\ objectURLs' = objectURLs \cup {url}
                   /\ body' = body \cup {a}
                   /\ timers' = timers \cup {a}
              ELSE UNCHANGED <<objectURLs, body, timers>>
  /\ UNCHANGED <<stored, upload, api, db, net>>

\* The setTimeout callback: the anchor is removed and the URL revoked.
Cleanup(a) ==
  /\ a \in timers
  /\ body' = body \ {a}
  /\ objectURLs' = objectURLs \ {a.href}
  /\ timers' = timers \ {a}
  /\ UNCHANGED <<calls, stored, upload, api, db, net>>

(***************************************************************************)
(* Specification                                                           *)
(***************************************************************************)

Next ==
  \/ \E c \in CallIds, f \in Files : EncryptFileStart(c, f)
  \/ \E c \in CallIds, seed \in Seeds : EncryptFileResume(c, seed)
  \/ \E c \in CallIds : EncryptFileReadFails(c)
  \/ \E c \in CallIds : Insert(c)
  \/ \E c \in CallIds : Settle(c)
  \/ \E content \in ForeignContents : ForeignRow(content)
  \/ \E field \in {"k", "i", "d"}, pos \in 1..(2 * KeyBytes) :
       \E ch \in ReplacementChars(field) : Corrupt(field, pos, ch)
  \/ DeleteRow
  \/ \E c \in CallIds : DecryptFile(c)
  \/ \E a \in timers : Cleanup(a)

Spec == Init /\ [][Next]_vars

(***************************************************************************)
(* Overlapping calls                                                       *)
(***************************************************************************)

\* The files of the overlapping calls: 5 and 16 bytes, and one above the bound.
ConcurrentFiles ==
  {f \in Files : (f.listed /\ f.size \in {5, 16}) \/ f.size = MAX_FILE_SIZE + 1}

\* The calls of the callers interleave at the await of encryptFile; decryptFile
\* runs between any two steps of the others.
NextConcurrent ==
  \/ \E c \in Callers, f \in ConcurrentFiles : EncryptFileStart(c, f)
  \/ \E c \in Callers, seed \in Seeds : EncryptFileResume(c, seed)
  \/ \E c \in Callers : EncryptFileReadFails(c)
  \/ \E c \in Callers : Insert(c)
  \/ \E c \in Callers : Settle(c)
  \/ \E c \in Callers : DecryptFile(c)
  \/ \E a \in timers : Cleanup(a)

ConcurrentSpec == Init /\ [][NextConcurrent]_vars

(***************************************************************************)
(* handleFileUpload                                                        *)
(***************************************************************************)

\* The two Russian toast texts of the handler, transliterated.
UploadSuccessToast == "Fajl uspeshno zagruzhen"
UploadDefaultToast == "Oshibka zagruzki fajla"

\* The files a user picks: listed ones of a few sizes and one that is too
\* large.
UploadFiles ==
  {f \in Files : (f.listed /\ f.size \in {0, 5, 16, 17}) \/ f.size = MAX_FILE_SIZE + 1}

\* The { error } the insert resolves with.
InsertOutcomes ==
  {[failed |-> FALSE, message |-> ""],
   [failed |-> TRUE, message |-> "new row violates row-level security policy"],
   [failed |-> TRUE, message |-> ""]}

\* toast.error(error.message || <the default text>)
UploadErrorToast(message) == IF message = "" THEN UploadDefaultToast ELSE message

\* The change event of the file input, which is disabled while uploadLoading:
\* the handler up to its first await.  Without a file or a profile it
\* returns at once; else it sets uploadLoading and calls encryptFile, which
\* runs up to its own await.
HandleFileUpload(hasFile, f, hasProfile) ==
  /\ upload.pc = "idle" /\ ~upload.uploadLoading
  /\ IF ~hasFile \/ ~hasProfile
     THEN /\ upload' = [IdleUpload EXCEPT !.pc = "finished"]
          /\ UNCHANGED calls
     ELSE /\ upload' = [IdleUpload EXCEPT !.pc = "encrypting", !.uploadLoading = TRUE,
                                          !.file = f]
          /\ EncryptFileStartCall(1, f)
  /\ UNCHANGED <<stored, objectURLs, body, timers, api, db, net>>

\* A handler whose catch path ends without the finally block.
HandleEncryptSettledNoFinally(outcome) ==
  /\ upload.pc = "encrypting"
  /\ calls[1].op = "encrypt" /\ calls[1].pc = "done"
  /\ IF calls[1].outcome = "threw"
     THEN /\ upload' = [upload EXCEPT !.pc = "finished",
                                      !.toast = UploadErrorToast(calls[1].error)]
          /\ UNCHANGED stored
     ELSE /\ upload' = [upload EXCEPT !.pc = "inserting", !.error = outcome,
                                      !.inserted = ~outcome.failed]
          /\ IF outcome.failed THEN UNCHANGED stored
             ELSE stored' = [present |-> TRUE, content |-> JsString(calls[1].ret.text),
                             name |-> upload.file.name, mime_type |-> upload.file.type,
                             origin |-> "encode", fields |-> calls[1].fields,
                             plain |-> upload.file.bytes, seed |-> calls[1].seed,
                             corrupted |-> "none", pos |-> 0]
  /\ UNCHANGED <<calls, objectURLs, body, timers, api, db, net>>

\* await encryptFile(file) settles.  A rejection goes to the catch block and
\* the finally block; a result is sent to the files table, and the insert
\* stores the row or fails.
HandleEncryptSettled(outcome) ==
  /\ upload.pc = "encrypting"
  /\ calls[1].op = "encrypt" /\ calls[1].pc = "done"
  /\ IF calls[1].outcome = "threw"
     THEN /\ upload' = [upload EXCEPT !.pc = "finished", !.uploadLoading = FALSE,
                                      !.toast = UploadErrorToast(calls[1].error)]
          /\ UNCHANGED stored
     ELSE /\ upload' = [upload EXCEPT !.pc = "inserting", !.error = outcome,
                                      !.inserted = ~outcome.failed]
          /\ IF outcome.failed THEN UNCHANGED stored
             ELSE stored' = [present |-> TRUE, content |-> JsString(calls[1].ret.text),
                             name |-> upload.file.name, mime_type |-> upload.file.type,
                             origin |-> "encode", fields |-> calls[1].fields,
                             plain |-> upload.file.bytes, seed |-> calls[1].seed,
                             corrupted |-> "none", pos |-> 0]
  /\ UNCHANGED <<calls, objectURLs, body, timers, api, db, net>>

\* await supabase.from('files').insert(...) settles: if (error) throw error,
\* else the success toast; then the finally block.
HandleInsertSettled ==
  /\ upload.pc = "inserting"
  /\ upload' = [upload EXCEPT !.pc = "finished", !.uploadLoading = FALSE,
                              !.toast = IF upload.error.failed
                                        THEN UploadErrorToast(upload.error.message)
                                        ELSE UploadSuccessToast]
  /\ UNCHANGED <<calls, stored, objectURLs, body, timers, api, db, net>>

\* The handler is gone; the flag stays as the handler left it.
HandleFileUploadDone ==
  /\ upload.pc = "finished"
  /\ upload' = [IdleUpload EXCEPT !.uploadLoading = upload.uploadLoading]
  /\ calls' = [calls EXCEPT ![1] = IdleCall]
  /\ UNCHANGED <<stored, objectURLs, body, timers, api, db, net>>

NextUpload ==
  \/ \E hasFile \in BOOLEAN, f \in UploadFiles, hasProfile \in BOOLEAN :
       HandleFileUpload(hasFile, f, hasProfile)
  \/ \E seed \in Seeds : upload.pc = "encrypting" /\ EncryptFileResume(1, seed)
  \/ upload.pc = "encrypting" /\ EncryptFileReadFails(1)
  \/ \E outcome \in InsertOutcomes : HandleEncryptSettled(outcome)
  \/ HandleInsertSettled
  \/ HandleFileUploadDone
  \/ upload.pc = "idle" /\ DeleteRow

UploadSpec == Init /\ [][NextUpload]_vars

(***************************************************************************)
(* The API-key functions: createApiKey, getApiKeys, deleteApiKey,          *)
(* getFilesWithApiKey                                                      *)
(***************************************************************************)

\* At most MaxKeys rows in api_keys; crypto.randomUUID() has NumUuids outcomes.
MaxKeys == 1
NumUuids == 2

\* The Russian messages of the functions, transliterated.
AuthErrorMessage == "Oshibka autentifikacii"
AuthRequiredMessage == "Neobhodima avtorizaciya"
ForbiddenMessage == "Nedostatochno prav"
ApiDefaultMessage(fn) ==
  IF fn = "createApiKey" THEN "Ne udalos sozdat API klyuch"
  ELSE IF fn = "getApiKeys" THEN "Ne udalos poluchit spisok API klyuchej"
  ELSE IF fn = "deleteApiKey" THEN "Ne udalos udalit API klyuch"
  ELSE "Ne udalos poluchit fajly"

\* The errors supabaseQuery throws: a failed request, and .single() on no row.
QueryFailedMessage == "Failed to fetch"
NoRowMessage == "JSON object requested, multiple (or no) rows returned"

ApiFns == {"createApiKey", "getApiKeys", "deleteApiKey", "getFilesWithApiKey"}

\* The operation each function sends once it is past its checks.
TableOp(fn) ==
  IF fn = "createApiKey" THEN [table |-> "api_keys", op |-> "insert"]
  ELSE IF fn = "getApiKeys" THEN [table |-> "api_keys", op |-> "select"]
  ELSE IF fn = "deleteApiKey" THEN [table |-> "api_keys", op |-> "delete"]
  ELSE [table |-> "files", op |-> "select"]

\* crypto.randomUUID(): outcome n of the random source, as a short text with
\* the '-' of a UUID.
RandomUUID(n) == <<HexDigit(n % 16), ChMinus, HexDigit((n + 1) % 16)>>

\* rawKey = crypto.randomUUID() + crypto.randomUUID()
RawKey(uuids) == RandomUUID(uuids[1]) \o RandomUUID(uuids[2])

RawKeys == {RawKey(<<a, b>>) : a \in 1..NumUuids, b \in 1..NumUuids}

RECURSIVE DigestFrom(_, _, _)
DigestFrom(text, i, acc) ==
  IF i > Len(text) THEN acc
  ELSE DigestFrom(text, i + 1, (acc * 31 + text[i] * (i + 2) + 7) % 65536)

\* SHA256(rawKey).toString(): a digest stand-in of two bytes, as hex text.
Sha256Hex(rawKey) ==
  LET digest == DigestFrom(rawKey, 1, 5)
  IN  HexStringify(<<digest \div 256, digest % 256>>)

\* catch (error): throw new Error(error.message || <the default text>)
ApiThrow(call, message) ==
  [call EXCEPT !.pc = "done", !.outcome = "threw",
               !.error = IF message = "" THEN ApiDefaultMessage(call.fn) ELSE message]

\* A function is called and runs up to await supabase.auth.getSession().
ApiInvoke(fn, name, expiresAt, id) ==
  /\ api.call.pc = "idle"
  /\ fn = "createApiKey" => Cardinality(api.keys) < MaxKeys
  /\ fn # "createApiKey" => (name = "" /\ expiresAt = 0)
  /\ fn = "createApiKey" => name # ""
  /\ (fn = "deleteApiKey") = (id # 0)
  /\ api' = [api EXCEPT !.call = [IdleApiCall EXCEPT !.fn = fn, !.pc = "session",
                                    !.name = name, !.expires_at = expiresAt, !.id = id]]
  /\ UNCHANGED <<calls, stored, objectURLs, body, timers, upload, db, net>>

\* getSession settles: the two checks of the session, then the query of the
\* caller's profile is sent.
GetSessionSettled(sessionError) ==
  /\ api.call.pc = "session"
  /\ api' = [api EXCEPT !.call =
       IF sessionError THEN ApiThrow(@, AuthErrorMessage)
       ELSE IF api.session = 0 THEN ApiThrow(@, AuthRequiredMessage)
       ELSE [@ EXCEPT !.pc = "profile", !.user = api.session, !.sawSession = TRUE]]
  /\ UNCHANGED <<calls, stored, objectURLs, body, timers, upload, db, net>>

\* A function that goes on whatever the profile says.
ProfileSettledNoCheck(failed, uuids) ==
  /\ api.call.pc = "profile"
  /\ (api.call.fn # "createApiKey") => uuids = <<1, 1>>
  /\ api' = [api EXCEPT !.call =
       IF failed THEN ApiThrow(@, QueryFailedMessage)
       ELSE IF api.profiles[api.call.user] = "missing" THEN ApiThrow(@, NoRowMessage)
       ELSE [@ EXCEPT !.pc = "op", !.sawAdmin = (api.profiles[api.call.user] = "admin"),
                      !.issued = Append(@, TableOp(api.call.fn)),
                      !.rawKey = IF api.call.fn = "createApiKey" THEN RawKey(uuids) ELSE <<>>]]
  /\ UNCHANGED <<calls, stored, objectURLs, body, timers, upload, db, net>>

\* The profile query settles: supabaseQuery throws, or the profile is read;
\* if (!profile?.is_admin) throw; else the table operation is sent (for
\* createApiKey with the hash of a key made of two random UUIDs).
ProfileSettled(failed, uuids) ==
  /\ api.call.pc = "profile"
  /\ (api.call.fn # "createApiKey") => uuids = <<1, 1>>
  /\ api' = [api EXCEPT !.call =
       IF failed THEN ApiThrow(@, QueryFailedMessage)
       ELSE IF api.profiles[api.call.user] = "missing" THEN ApiThrow(@, NoRowMessage)
       ELSE IF api.profiles[api.call.user] # "admin" THEN ApiThrow(@, ForbiddenMessage)
       ELSE [@ EXCEPT !.pc = "op", !.sawAdmin = TRUE,
                      !.issued = Append(@, TableOp(api.call.fn)),
                      !.rawKey = IF api.call.fn = "createApiKey" THEN RawKey(uuids) ELSE <<>>]]
  /\ UNCHANGED <<calls, stored, objectURLs, body, timers, upload, db, net>>

NewKeyId == CHOOSE k \in 1..(Cardinality(api.keys) + 1) : \A r \in api.keys : r.id # k

\* The policy "Admins can manage their API keys" for the row of an
\* administrator, as the database sees the request: auth.uid() is the user
\* signed in when it arrives.
KeyPolicy(adminId) ==
  /\ api.session # 0
  /\ api.session = adminId
  /\ api.profiles[api.session] = "admin"

\* The insert passes the trigger check_admin_status, the policy and the
\* UNIQUE constraint on key.
InsertAllowed(call) ==
  /\ api.profiles[call.user] = "admin"
  /\ KeyPolicy(call.user)
  /\ \A r \in api.keys : r.key # Sha256Hex(call.rawKey)

\* An insert that stores the key as it was generated.
KeysAfterRaw(call) ==
  IF call.fn = "createApiKey"
  THEN api.keys \cup {[id |-> NewKeyId, key |-> call.rawKey, name |-> call.name,
                       admin_id |-> call.user, expires_at |-> call.expires_at,
                       last_used_at |-> 0]}
  ELSE IF call.fn = "deleteApiKey"
  THEN {r \in api.keys : ~(r.id = call.id /\ r.admin_id = call.user /\ KeyPolicy(r.admin_id))}
  ELSE api.keys

\* The rows of api_keys after the operation of the call.
KeysAfter(call) ==
  IF call.fn = "createApiKey"
  THEN api.keys \cup {[id |-> NewKeyId, key |-> Sha256Hex(call.rawKey), name |-> call.name,
                       admin_id |-> call.user, expires_at |-> call.expires_at,
                       last_used_at |-> 0]}
  ELSE IF call.fn = "deleteApiKey"
  THEN {r \in api.keys : ~(r.id = call.id /\ r.admin_id = call.user /\ KeyPolicy(r.admin_id))}
  ELSE api.keys

RejectedMessage == "new row violates row-level security policy"

\* The table operation settles.  supabaseQuery throws, with the operation
\* carried out (landed) or not, or the operation has taken effect and the
\* function returns; an insert the database refuses makes it throw.
OpSettled(failed, landed) ==
  /\ api.call.pc = "op"
  /\ ~failed => landed
  /\ \E refused \in {api.call.fn = "createApiKey" /\ ~InsertAllowed(api.call)} :
       api' = [api EXCEPT
         !.keys = IF landed /\ ~refused THEN KeysAfter(api.call) ELSE @,
         !.call =
           IF refused /\ landed THEN ApiThrow(@, RejectedMessage)
           ELSE IF failed THEN ApiThrow(@, QueryFailedMessage)
           ELSE [@ EXCEPT !.pc = "done", !.outcome = "returned",
                          !.returned = api.call.rawKey,
                          !.result = IF api.call.fn = "getApiKeys"
                                     THEN {r.id : r \in {k \in api.keys :
                                             k.admin_id = api.call.user /\ KeyPolicy(k.admin_id)}}
                                     ELSE IF api.call.fn = "getFilesWithApiKey" /\ stored.present
                                     THEN {1} ELSE {}]]
  /\ UNCHANGED <<calls, stored, objectURLs, body, timers, upload, db, net>>

\* The caller is done with the outcome of the call.
ApiSettle ==
  /\ api.call.pc = "done"
  /\ api' = [api EXCEPT !.call = IdleApiCall]
  /\ UNCHANGED <<calls, stored, objectURLs, body, timers, upload, db, net>>

\* Somebody signs in or out, in this tab or another.
SignIn(u) ==
  /\ api.session # u
  /\ api' = [api EXCEPT !.session = u]
  /\ UNCHANGED <<calls, stored, objectURLs, body, timers, upload, db, net>>

SignOut ==
  /\ api.session # 0
  /\ api' = [api EXCEPT !.session = 0]
  /\ UNCHANGED <<calls, stored, objectURLs, body, timers, upload, db, net>>

\* The profile of a user is changed or removed by whoever may.
SetProfile(u, kind) ==
  /\ api.profiles[u] # kind
  /\ kind = "missing" =>
       /\ \A r \in api.keys : r.admin_id # u
       /\ \A f \in db.files : f.user_id # u
  /\ api' = [api EXCEPT !.profiles[u] = kind]
  /\ UNCHANGED <<calls, stored, objectURLs, body, timers, upload, db, net>>

NextApi ==
  \/ \E fn \in ApiFns, name \in {"", "ci"}, id \in 0..MaxKeys :
       ApiInvoke(fn, name, 0, id)
  \/ \E sessionError \in BOOLEAN : GetSessionSettled(sessionError)
  \/ \E failed \in BOOLEAN, a \in 1..NumUuids, b \in 1..NumUuids :
       ProfileSettled(failed, <<a, b>>)
  \/ \E failed \in BOOLEAN, landed \in BOOLEAN : OpSettled(failed, landed)
  \/ ApiSettle
  \/ \E u \in Users : SignIn(u)
  \/ SignOut
  \/ \E u \in Users, kind \in {"user", "admin", "missing"} : SetProfile(u, kind)

ApiSpec == Init /\ [][NextApi]_vars

(***************************************************************************)
(* decryptFile in a document whose DOM calls may throw                     *)
(***************************************************************************)

\* Object URLs that may exist at any one time where DOM calls throw.
MaxUrls == 2

DomMessage == "Failed to execute 'appendChild' on 'Node'"
UrlIds == 1..MaxUrls

\* decryptFile on an envelope that decrypts, in which a DOM call after
\* URL.createObjectURL (createElement, appendChild, click) throws: the catch
\* block rethrows, the timer is never set.
DecryptFileDomFails(c) ==
  /\ calls[c].pc = "idle"
  /\ stored.present
  /\ Cardinality(objectURLs) < MaxUrls
  /\ \E r \in {DecryptTry(stored.content, stored.name, stored.mime_type)},
        url \in {NewUrl} :
       /\ r.thrown = ""
       /\ calls' = [calls EXCEPT ![c] =
             [IdleCall EXCEPT !.op = "decrypt", !.pc = "done", !.row = stored,
                              !.outcome = "threw", !.thrown = DomMessage,
                              !.error = DecryptCatch(DomMessage),
                              !.delivery = r.delivery, !.url = url]]
       /\ objectURLs' = objectURLs \cup {url}
  /\ UNCHANGED <<stored, body, timers, upload, api, db, net>>

\* Something else in the page detaches the hidden anchor before the timer
\* fires.
AnchorDetached(a) ==
  /\ a \in body /\ a \in timers
  /\ body' = body \ {a}
  /\ UNCHANGED <<calls, stored, objectURLs, timers, upload, api, db, net>>

\* The setTimeout callback on a detached anchor: document.body.removeChild(a)
\* throws, URL.revokeObjectURL(url) is not reached.
CleanupFails(a) ==
  /\ a \in timers /\ a \notin body
  /\ timers' = timers \ {a}
  /\ UNCHANGED <<calls, stored, objectURLs, body, upload, api, db, net>>

\* The files of this environment: 5 bytes.
LiveFiles == {f \in Files : f.listed /\ f.size = 5}

\* A timer that is pending fires.
TimerFires == \E a \in timers : (a \in body /\ Cleanup(a)) \/ CleanupFails(a)

NextLive ==
  \/ \E c \in CallIds, f \in LiveFiles : EncryptFileStart(c, f)
  \/ \E c \in CallIds, seed \in Seeds : EncryptFileResume(c, seed)
  \/ \E c \in CallIds : Insert(c)
  \/ \E c \in CallIds : Settle(c)
  \/ \E c \in CallIds : Cardinality(objectURLs) < MaxUrls /\ DecryptFile(c)
  \/ \E c \in CallIds : DecryptFileDomFails(c)
  \/ DeleteRow
  \/ \E a \in body : AnchorDetached(a)
  \/ \E a \in timers : a \in body /\ Cleanup(a)
  \/ \E a \in timers : CleanupFails(a)

\* setTimeout callbacks run: a pending timer does not wait forever.
LiveSpec == Init /\ [][NextLive]_vars /\ WF_vars(TimerFires)

(***************************************************************************)
(* Properties                                                              *)
(***************************************************************************)

\* A finished call of decryptFile, and one of encryptFile.
DecryptDone(c) == calls[c].op = "decrypt" /\ calls[c].pc = "done"
EncryptDone(c) == calls[c].op = "encrypt" /\ calls[c].pc = "done"

\* The row a finished decryptFile call read is an envelope encryptFile
\* returned, unchanged since.
ReadOwnEnvelope(c) ==
  DecryptDone(c) /\ calls[c].row.origin = "encode" /\ calls[c].row.corrupted = "none"

\* C1: Round-trip.  decryptFile applied to the envelope encryptFile returned
\* for the bytes b, whatever their number (none, or a multiple of the block
\* size), raises no error and delivers exactly b.
RoundTrip ==
  \A c \in CallIds :
    ReadOwnEnvelope(c) =>
      /\ calls[c].outcome = "returned"
      /\ calls[c].delivery.made
      /\ calls[c].delivery.bytes = calls[c].row.plain

\* C2: Size boundary.  encryptFile on a file of more than 10 485 760 bytes
\* fails with 'File size exceeds 10MB limit' and returns no envelope; on a
\* file of exactly 10 485 760 bytes the size check lets the call pass, it goes
\* on to read the file and, the bytes read, returns an envelope.
SizeBoundary ==
  \A c \in CallIds :
    calls[c].op = "encrypt" =>
      /\ calls[c].file.size > 10485760 =>
           /\ calls[c].pc = "done" /\ calls[c].outcome = "threw"
           /\ calls[c].error = "File size exceeds 10MB limit"
           /\ ~calls[c].ret.made
      /\ calls[c].file.size = 10485760 =>
           /\ calls[c].error # "File size exceeds 10MB limit"
           /\ calls[c].read
           /\ (calls[c].pc = "done" /\ calls[c].encrypted) =>
                (calls[c].outcome = "returned" /\ calls[c].ret.made)

SizeBoundaryWitness ==
  \E c \in CallIds :
    /\ EncryptDone(c) /\ calls[c].file.size = 10485760
    /\ calls[c].outcome = "returned" /\ calls[c].ret.made

\* C3: The size check comes first.  In a call of encryptFile on a file above
\* the bound the file is never read, no key and no IV is drawn and nothing is
\* encrypted: the call fails at the check.
SizeCheckFirst ==
  \A c \in CallIds :
    (calls[c].op = "encrypt" /\ calls[c].file.size > 10485760) =>
      /\ ~calls[c].read
      /\ calls[c].seed = 0
      /\ ~calls[c].encrypted
      /\ calls[c].fields = NoFields
      /\ calls[c].thrown = SizeMessage

SizeCheckFirstWitness ==
  \E c \in CallIds :
    /\ EncryptDone(c) /\ calls[c].file.size = 10485761
    /\ calls[c].outcome = "threw" /\ ~calls[c].read

\* C5: Tamper sensitivity.  After any one character of the d member of an
\* envelope was replaced, decryptFile fails or delivers bytes that differ
\* from the original ones.
TamperSensitive ==
  \A c \in CallIds :
    (DecryptDone(c) /\ calls[c].row.origin = "encode" /\ calls[c].row.corrupted = "d") =>
      \/ calls[c].outcome = "threw"
      \/ calls[c].delivery.bytes # calls[c].row.plain

\* The check that the order of validation names as the first to fail on a
\* content, by its message; "" when none of the four fails.  A value has a
\* member when it is an object holding one of that name.
MemberMissing(v, name) == GetProp(v, Str(<<name>>)) = JsUndefined

FirstFailingParsed(parsed) ==
  IF ~parsed.ok THEN StructureMessage
  ELSE IF \E name \in {"k", "i", "d", "s"} : MemberMissing(parsed.v, name)
       THEN IncompleteMessage
  ELSE ""

FirstFailingBinary(standardBase64) ==
  IF AtobThrows(standardBase64) THEN FormatMessage
  ELSE IF Utf8DecodeThrows(Atob(standardBase64)) THEN FormatMessage
  ELSE FirstFailingParsed(JsonParse(Utf8Decode(Atob(standardBase64))))

FirstFailing(content) ==
  IF content.t # "string" \/ content.str = <<>> THEN NoDataMessage
  ELSE FirstFailingBinary(RestoreBase64(content.str))

\* C6: Validation order.  decryptFile reports the first check that fails,
\* each with its own error: no data, then a string that is no base64 text,
\* then a text that is no JSON, then a parsed value that lacks one of k, i, d
\* and s.
ValidationOrder ==
  \A c \in CallIds :
    (DecryptDone(c) /\ FirstFailing(calls[c].row.content) # "") =>
      /\ calls[c].outcome = "threw"
      /\ calls[c].thrown = FirstFailing(calls[c].row.content)

ValidationMessages == {NoDataMessage, FormatMessage, StructureMessage, IncompleteMessage}

\* C7 as stated: the error of a failed validation step reaches the caller of
\* decryptFile as it was raised, with the message of that step.
ValidationErrorsVerbatim ==
  \A c \in CallIds :
    (DecryptDone(c) /\ calls[c].thrown \in ValidationMessages) =>
      calls[c].error = calls[c].thrown

\* C7: the error of a failed validation step reaches the caller of
\* decryptFile as a new error whose message is 'Failed to decrypt file: '
\* followed by the message of that step; the messages of the four steps stay
\* different from one another.
ValidationErrorsPrefixed ==
  \A c \in CallIds :
    (DecryptDone(c) /\ calls[c].thrown \in ValidationMessages) =>
      /\ calls[c].outcome = "threw"
      /\ calls[c].error = "Failed to decrypt file: " \o calls[c].thrown
      /\ \A m \in ValidationMessages \ {calls[c].thrown} :
           calls[c].error # "Failed to decrypt file: " \o m

ValidationErrorsPrefixedWitness ==
  \E c \in CallIds :
    /\ DecryptDone(c) /\ calls[c].thrown = "No data provided for decryption"
    /\ calls[c].error = "Failed to decrypt file: No data provided for decryption"

\* C8: A corrupted key or IV is a decryption failure.  After a hex digit of
\* the k or the i member of an envelope was replaced by another hex digit,
\* decryptFile fails with 'Failed to decrypt file: ' and the cause, and
\* delivers nothing.
CorruptKeyRejected ==
  \A c \in CallIds :
    (/\ DecryptDone(c) /\ calls[c].row.origin = "encode"
     /\ calls[c].row.corrupted \in {"k", "i"}
     /\ IsHex(calls[c].row.fields.k) /\ IsHex(calls[c].row.fields.i)) =>
      /\ calls[c].outcome = "threw"
      /\ calls[c].error = DecryptPrefix \o calls[c].thrown
      /\ ~calls[c].delivery.made

\* C9: The envelope of an empty file is supported.  An envelope that holds k,
\* i, d and s with s = 0, as encryptFile returns it for a file of no bytes,
\* is not rejected as incomplete: decryptFile delivers a result of no bytes.
EmptyFileSupported ==
  \A c \in CallIds :
    (ReadOwnEnvelope(c) /\ calls[c].row.fields.s = 0) =>
      /\ calls[c].thrown # IncompleteMessage
      /\ calls[c].outcome = "returned"
      /\ calls[c].delivery.made /\ calls[c].delivery.bytes = <<>>

AloneOutcome(call) ==
  IF call.op = "encrypt" /\ call.pc = "done"
  THEN IF call.outcome = "threw"
       THEN /\ ~call.ret.made
            /\ call.error = (IF call.file.size > MAX_FILE_SIZE
                             THEN SizeMessage ELSE EncryptFailedMessage)
       ELSE /\ call.file.size <= MAX_FILE_SIZE /\ call.ret.made
            /\ call.file.listed =>
                 call.ret.text = EncryptedEnvelope(call.file.bytes, RandomKey(call.seed),
                                                   RandomIv(call.seed))
  ELSE IF call.op = "decrypt" /\ call.pc = "done"
  THEN \E r \in {DecryptTry(call.row.content, call.row.name, call.row.mime_type)} :
         /\ call.thrown = r.thrown
         /\ call.delivery = r.delivery
         /\ call.outcome = (IF r.thrown = "" THEN "returned" ELSE "threw")
         /\ call.error = (IF r.thrown = "" THEN "" ELSE DecryptPrefix \o r.thrown)
  ELSE TRUE

\* C11: Overlapping calls share no mutable state.  A step of one call changes
\* the record of no other call, whatever that one is doing, and the outcome
\* of every call (envelope, delivered bytes or error) is the outcome the call
\* has alone on its own inputs with its own key and IV.
CallsIndependent ==
  [][\A c \in Callers :
       calls'[c] # calls[c] =>
         /\ \A o \in Callers \ {c} : calls'[o] = calls[o]
         /\ AloneOutcome(calls'[c])]_vars

\* decryptFile of caller 2 has run and delivered while encryptFile of caller 1
\* is suspended at its await.
CallsIndependentWitness ==
  /\ calls[1].op = "encrypt" /\ calls[1].pc = "reading"
  /\ calls[2].op = "decrypt" /\ calls[2].pc = "done" /\ calls[2].delivery.made

\* C12: Every object URL is released.  An object URL that a decryptFile call
\* created does not stay unrevoked forever, also when a step after its
\* creation or a step of the deferred cleanup throws.
UrlsReleased == \A u \in UrlIds : (u \in objectURLs) ~> (u \notin objectURLs)

\* C13: The object URL is released only after the save action was triggered,
\* in a separately scheduled later step.  The step in which a decryptFile
\* call returns has clicked the anchor and leaves its URL live, with the
\* anchor in the document and the cleanup timer pending; a step that revokes
\* a URL is the timer of an anchor with that URL and is no step of any call.
ReleaseAfterClick ==
  [][/\ \A c \in Callers :
          (calls'[c] # calls[c] /\ calls'[c].op = "decrypt"
             /\ calls'[c].outcome = "returned")
          => /\ calls'[c].clicked
             /\ calls'[c].url \in objectURLs'
             /\ \E a \in timers' \cap body' : a.href = calls'[c].url
     /\ \A u \in objectURLs \ objectURLs' :
          /\ calls' = calls
          /\ \E a \in timers \ timers' : a.href = u]_vars

\* A call has returned, its anchor was clicked, and the timer has since
\* revoked its URL.
ReleaseAfterClickWitness ==
  /\ calls[1].op = "decrypt" /\ calls[1].outcome = "returned"
  /\ calls[1].clicked
  /\ calls[1].url \notin objectURLs
  /\ timers = {}

\* C14: Length recovery in decryptFile.  The delivered buffer has exactly s
\* bytes; byte n of it, for n < s inside the decrypted words, is byte n mod 4
\* (big-endian) of word n div 4; nothing at index s or beyond is delivered.
\* Decrypting the envelope of the bytes 01 02 03 04 05 delivers these 5 bytes.
LengthRecovered ==
  \A c \in Callers :
    (calls[c].op = "decrypt" /\ calls[c].pc = "done") =>
      /\ calls[c].delivery.made =>
           LET dl == calls[c].delivery
           IN  /\ Len(dl.bytes) = dl.s
               /\ \A n \in 0..(dl.s - 1) :
                    n < 4 * Len(dl.words) =>
                      dl.bytes[n + 1] = (dl.words[(n \div 4) + 1] \div Pow2(8 * (3 - (n % 4)))) % 256
      /\ (calls[c].row.origin = "encode" /\ calls[c].row.corrupted = "none"
            /\ calls[c].row.plain = <<1, 2, 3, 4, 5>>)
         => /\ calls[c].outcome = "returned"
            /\ calls[c].delivery.bytes = <<1, 2, 3, 4, 5>>

\* The 5 bytes were delivered out of a decrypted buffer that is longer.
LengthRecoveredWitness ==
  /\ calls[1].op = "decrypt" /\ calls[1].outcome = "returned"
  /\ calls[1].delivery.bytes = <<1, 2, 3, 4, 5>>
  /\ calls[1].delivery.s = 5
  /\ 4 * Len(calls[1].delivery.words) > 5

\* C15: The s of every envelope encryptFile returns is the number of bytes of
\* the file before padding, and it is the number of bytes left when the d of
\* the envelope is decrypted and its PKCS#7 padding removed.
LengthRecorded ==
  \A c \in Callers :
    (EncryptDone(c) /\ calls[c].outcome = "returned" /\ calls[c].ret.listed) =>
      /\ calls[c].fields.s = Len(calls[c].file.bytes)
      /\ calls[c].fields.s = calls[c].file.size
      /\ AesDecrypt(calls[c].fields.d, HexParse(calls[c].fields.k),
                    HexParse(calls[c].fields.i)).sigBytes = calls[c].fields.s

\* The envelope of a file that fills a block, to which a whole block of
\* padding is added.
LengthRecordedWitness ==
  /\ EncryptDone(1) /\ calls[1].outcome = "returned" /\ calls[1].ret.listed
  /\ calls[1].fields.s = BlockSize

\* C16: Envelope layout.  Every string encryptFile returns holds none of the
\* characters '+', '/' and '=' and is the unpadded URL-safe base64 text of a
\* JSON object with exactly the four members k, i, d and s: k the 64 hex
\* characters of the 32-byte key, i the 32 hex characters of the 16-byte IV,
\* d the cipher text and s the length of the plain bytes.
EnvelopeLayout ==
  \A c \in Callers :
    (EncryptDone(c) /\ calls[c].outcome = "returned" /\ calls[c].ret.listed) =>
      LET t == calls[c].ret.text
          key == RandomKey(calls[c].seed)
          iv == RandomIv(calls[c].seed)
      IN  /\ \A n \in 1..Len(t) : t[n] \notin {ChPlus, ChSlash, ChEquals}
          /\ ~AtobThrows(RestoreBase64(t))
          /\ ~Utf8DecodeThrows(Atob(RestoreBase64(t)))
          /\ \E parsed \in {JsonParse(Utf8Decode(Atob(RestoreBase64(t))))} :
               /\ parsed.ok /\ parsed.v.t = "object"
               /\ Len(parsed.v.fields) = 4
               /\ {parsed.v.fields[n].key : n \in 1..4}
                    = {Str(<<"k">>), Str(<<"i">>), Str(<<"d">>), Str(<<"s">>)}
               /\ GetProp(parsed.v, Str(<<"k">>)) = JsString(HexStringify(key))
               /\ Len(GetProp(parsed.v, Str(<<"k">>)).str) = 64
               /\ IsHex(GetProp(parsed.v, Str(<<"k">>)).str)
               /\ Len(key) = 32
               /\ GetProp(parsed.v, Str(<<"i">>)) = JsString(HexStringify(iv))
               /\ Len(GetProp(parsed.v, Str(<<"i">>)).str) = 32
               /\ IsHex(GetProp(parsed.v, Str(<<"i">>)).str)
               /\ Len(iv) = 16
               /\ GetProp(parsed.v, Str(<<"d">>))
                    = JsString(AesEncryptToString(WordArrayCreate(calls[c].file.bytes), key, iv))
               /\ GetProp(parsed.v, Str(<<"s">>)) = JsNumber(calls[c].file.size)

\* An envelope whose base64 text ended in padding before it was stripped.
EnvelopeLayoutWitness ==
  /\ EncryptDone(1) /\ calls[1].outcome = "returned" /\ calls[1].ret.listed
  /\ Len(calls[1].ret.text) % 4 # 0

\* The number of '=' at the end of a text.
TrailingEquals(text) == Len(text) - Len(StripTrailingEquals(text))

\* C17: The transport encoding is reversible.  For the JSON text j of every
\* envelope encryptFile returns, the reversal of decryptFile ('-' to '+',
\* '_' to '/', '=' appended up to a multiple of 4, atob, UTF-8 decoding)
\* applied to the encoding of j (btoa, '+' to '-', '/' to '_', trailing '='
\* stripped) yields j, and it appends as many '=' as the encoding stripped.
TransportReversible ==
  \A c \in Callers :
    (EncryptDone(c) /\ calls[c].outcome = "returned" /\ calls[c].ret.listed) =>
      LET j == JsonStringify(calls[c].fields)
          b64 == Btoa(Utf8Encode(j))
          t == calls[c].ret.text
          std == RestoreBase64(t)
      IN  /\ t = TransportEncode(j)
          /\ ~AtobThrows(std) /\ ~Utf8DecodeThrows(Atob(std))
          /\ Utf8Decode(Atob(std)) = j
          /\ Len(std) - Len(t) = TrailingEquals(b64)
          /\ TrailingEquals(std) = TrailingEquals(b64)

\* A JSON text whose length leaves the remainder 1 modulo 3: two '=' are
\* stripped and appended again.
TransportReversibleWitness ==
  /\ EncryptDone(1) /\ calls[1].outcome = "returned" /\ calls[1].ret.listed
  /\ Len(JsonStringify(calls[1].fields)) % 3 = 1
  /\ Len(RestoreBase64(calls[1].ret.text)) - Len(calls[1].ret.text) = 2

\* C18: Delivery defaults.  A decryptFile call that succeeds gives the blob
\* the MIME type it was passed and saves under the name it was passed; an
\* empty MIME type becomes 'application/octet-stream', an empty name
\* 'downloaded-file'; the bytes delivered are the same whatever the name and
\* the MIME type.
DeliveryDefaults ==
  \A c \in Callers :
    (DecryptDone(c) /\ calls[c].outcome = "returned") =>
      LET dl == calls[c].delivery
          row == calls[c].row
      IN  /\ dl.made
          /\ dl.type = IF row.mime_type = "" THEN "application/octet-stream"
                       ELSE row.mime_type
          /\ dl.download = IF row.name = "" THEN "downloaded-file" ELSE row.name
          /\ row.corrupted = "none" =>
               \A other \in {<<"report.pdf", "">>, <<"", "application/pdf">>} :
                  \E r \in {DecryptTry(row.content, other[1], other[2])} :
                     /\ r.thrown = ""
                     /\ r.delivery.bytes = dl.bytes

\* A call that was passed neither a name nor a MIME type has delivered.
DeliveryDefaultsWitness ==
  /\ DecryptDone(1) /\ calls[1].outcome = "returned"
  /\ calls[1].row.name = "" /\ calls[1].row.mime_type = ""
  /\ calls[1].delivery.type = "application/octet-stream"
  /\ calls[1].delivery.download = "downloaded-file"
  /\ \E a \in body : a.download = "downloaded-file"

\* C19: Upload ordering.  handleFileUpload inserts into files only after
\* encryptFile has returned, and the content it inserts is the string
\* encryptFile returned; when encryptFile fails nothing is inserted; however
\* the handler ends, uploadLoading is false when it has finished.
UploadOrdering ==
  [][/\ (stored' # stored /\ stored'.present) =>
          /\ upload.pc = "encrypting"
          /\ calls[1].op = "encrypt" /\ calls[1].pc = "done"
          /\ calls[1].outcome = "returned"
          /\ stored'.content = JsString(calls[1].ret.text)
          /\ stored'.content = JsString(EncryptedEnvelope(upload.file.bytes,
                                  RandomKey(calls[1].seed), RandomIv(calls[1].seed)))
     /\ (upload.pc = "encrypting" /\ calls[1].outcome = "threw") => stored' = stored
     /\ upload'.pc = "finished" =>
          /\ ~upload'.uploadLoading
          /\ calls'[1].outcome = "threw" => (~upload'.inserted /\ ~stored'.present)
          /\ upload'.inserted => calls'[1].outcome = "returned"]_vars

\* An upload of a file that is too large has finished with the message of
\* encryptFile as its toast, nothing stored and the flag down.
UploadOrderingWitness ==
  /\ upload.pc = "finished"
  /\ calls[1].outcome = "threw" /\ calls[1].error = SizeMessage
  /\ upload.toast = SizeMessage
  /\ ~stored.present /\ ~upload.uploadLoading

\* C20: Authorization gate of the API-key functions.  A function sends its
\* insert, select or delete on api_keys or files only once getSession has
\* given it a session, in the step in which it reads is_admin true in the
\* profile of the caller;
\* only such an operation changes api_keys; a call that finds no session, a
\* session error or a profile that is not an administrator's throws, has
\* sent no operation, and leaves api_keys and files as they were.
AuthorizationGate ==
  [][/\ api'.call.issued # api.call.issued =>
          \/ api'.call.issued = <<>>
          \/ /\ api.call.pc = "profile"
             /\ api.call.sawSession /\ api.call.user \in Users
             /\ api.profiles[api.call.user] = "admin"
             /\ api'.call.sawAdmin
             /\ api'.call.issued = <<TableOp(api.call.fn)>>
     /\ (api'.keys # api.keys \/ stored' # stored) =>
          /\ api.call.pc = "op" /\ api.call.issued # <<>>
          /\ api.call.sawSession /\ api.call.sawAdmin
     /\ (api.call.pc = "session" /\ api'.call # api.call /\ api.session = 0) =>
          /\ api'.call.outcome = "threw" /\ api'.call.issued = <<>>
          /\ api'.call.error \in {AuthErrorMessage, AuthRequiredMessage}
     /\ (api.call.pc = "profile" /\ api'.call # api.call
           /\ api.profiles[api.call.user] # "admin") =>
          /\ api'.call.outcome = "threw" /\ api'.call.issued = <<>>
     /\ (api'.call.pc = "done" /\ api'.call.issued = <<>>) =>
          /\ api'.call.outcome = "threw"
          /\ api'.keys = api.keys /\ stored' = stored]_vars

\* A user who is no administrator has called a function while api_keys holds
\* a key: the call has thrown and has sent nothing.
AuthorizationGateWitness ==
  /\ api.call.pc = "done" /\ api.call.outcome = "threw"
  /\ api.call.error = ForbiddenMessage
  /\ api.call.fn = "deleteApiKey"
  /\ api.call.issued = <<>>
  /\ \E r \in api.keys : r.id = api.call.id

\* C21: createApiKey stores only the hash of the key it generates.  No row
\* of api_keys ever holds a raw key in its key column; the row a call adds
\* holds the SHA-256 text of the key generated in that call and the id of
\* the administrator who called; a call that succeeds returns the raw key
\* whose hash a row holds.
HashOnlyStorage ==
  [][/\ \A r \in api'.keys : r.key \notin RawKeys
     /\ \A r \in api'.keys \ api.keys :
          /\ api.call.fn = "createApiKey"
          /\ r.key = Sha256Hex(api.call.rawKey)
          /\ r.key # api.call.rawKey
          /\ r.admin_id = api.call.user
          /\ r.admin_id = api.session
          /\ api.profiles[r.admin_id] = "admin"
     /\ (api'.call # api.call /\ api'.call.fn = "createApiKey"
           /\ api'.call.outcome = "returned") =>
          /\ api'.call.returned = api.call.rawKey
          /\ api'.call.returned \in RawKeys
          /\ \E r \in api'.keys :
               /\ r.key = Sha256Hex(api'.call.returned)
               /\ r.admin_id = api'.call.user]_vars

\* createApiKey has returned a raw key, and api_keys holds its hash.
HashOnlyStorageWitness ==
  /\ api.call.fn = "createApiKey" /\ api.call.outcome = "returned"
  /\ api.call.returned \in RawKeys
  /\ \E r \in api.keys : r.key = Sha256Hex(api.call.returned) /\ r.admin_id = api.call.user

\* ---------------------------------------------------------------------
\* Row level security: the policies the migrations leave in force, and the
\* statements a signed-in user (auth.uid() = api.session) sends to the
\* tables files and profiles.
\* ---------------------------------------------------------------------

MaxFiles == 2

Policy(name, table, cmd, using, check) ==
  [op |-> "create", name |-> name, table |-> table, cmd |-> cmd,
   using |-> using, check |-> check]

DropPolicy(name, table) ==
  [op |-> "drop", name |-> name, table |-> table, cmd |-> "", using |-> "", check |-> ""]

\* 20250208172857_withered_desert.sql
WitheredDesert ==
  << Policy("Users can view own profile", "profiles", "SELECT", "uid = id", ""),
     Policy("Admin can view all profiles", "profiles", "SELECT", "admin profile", ""),
     Policy("Users can manage own files", "files", "ALL", "uid = user_id", ""),
     Policy("Admin can view all files", "files", "SELECT", "admin profile", "") >>

\* 20250208174250_shiny_field.sql
ShinyField ==
  << DropPolicy("Users can view own profile", "profiles"),
     DropPolicy("Users can update own profile", "profiles"),
     DropPolicy("Users can insert own profile", "profiles"),
     DropPolicy("Users can manage own files", "files"),
     DropPolicy("Admin can view all files", "files"),
     Policy("Users can view own profile", "profiles", "SELECT", "uid = id", ""),
     Policy("Users can update own profile", "profiles", "UPDATE", "uid = id", ""),
     Policy("Users can insert own profile", "profiles", "INSERT", "", "uid = id"),
     Policy("Users can view own files", "files", "SELECT", "uid = user_id", ""),
     Policy("Users can insert own files", "files", "INSERT", "", "uid = user_id"),
     Policy("Users can update own files", "files", "UPDATE", "uid = user_id", ""),
     Policy("Users can delete own files", "files", "DELETE", "uid = user_id", ""),
     Policy("Admin can view all files", "files", "SELECT", "admin profile", "") >>

\* 20250208180702_steep_ocean.sql
SteepOcean ==
  << Policy("Admins can manage their API keys", "api_keys", "ALL", "admin owner", ""),
     DropPolicy("Users can view own profile", "profiles"),
     DropPolicy("Users can update own profile", "profiles"),
     DropPolicy("Users can insert own profile", "profiles"),
     Policy("Users can view own profile", "profiles", "SELECT", "uid = id", ""),
     Policy("Users can update own profile", "profiles", "UPDATE", "uid = id", ""),
     Policy("Users can insert own profile", "profiles", "INSERT", "", "uid = id"),
     DropPolicy("Users can view own profile", "profiles"),
     DropPolicy("Users can update own profile", "profiles"),
     DropPolicy("Admin can view all profiles", "profiles"),
     DropPolicy("Users can manage own files", "files"),
     DropPolicy("Admin can view all files", "files"),
     Policy("Users can view own profile", "profiles", "SELECT", "uid = id", ""),
     Policy("Users can update own profile", "profiles", "UPDATE", "uid = id", ""),
     Policy("Users can manage own files", "files", "ALL", "uid = user_id", ""),
     Policy("Admin can view all files", "files", "SELECT", "admin in auth.users", "") >>

\* The policies in force after the statements of the migrations, in order.
RECURSIVE PoliciesAfter(_, _, _)
PoliciesAfter(statements, i, policies) ==
  IF i > Len(statements) THEN policies
  ELSE LET st == statements[i]
           kept == {q \in policies : ~(q.name = st.name /\ q.table = st.table)}
       IN  PoliciesAfter(statements, i + 1,
                         IF st.op = "drop" THEN kept ELSE kept \cup {st})

Policies == PoliciesAfter(WitheredDesert \o ShinyField \o SteepOcean, 1, {})

\* A policy expression that holds for every signed-in user.
PolicyHoldsAny(expr, uid, owner) == uid # 0

\* The expression of a policy for the user uid and a row whose owner column
\* (id of profiles, user_id of files, admin_id of api_keys) is owner.
PolicyHolds(expr, uid, owner) ==
  /\ uid # 0
  /\ \/ expr \in {"uid = id", "uid = user_id"} /\ uid = owner
     \/ expr \in {"admin profile", "admin in auth.users"} /\ api.profiles[uid] = "admin"
     \/ expr = "admin owner" /\ api.profiles[uid] = "admin" /\ uid = owner

\* Row level security lets the user uid carry out cmd on the row: some
\* policy for the command (or FOR ALL) passes.  An existing row is judged
\* by USING; a new row by WITH CHECK, or by USING where there is none.
Permits(table, cmd, uid, owner, isNew) ==
  \E q \in Policies :
    /\ q.table = table
    /\ q.cmd \in {cmd, "ALL"}
    /\ IF isNew
       THEN /\ q.cmd # "SELECT" /\ q.cmd # "DELETE"
            /\ PolicyHolds(IF q.check # "" THEN q.check ELSE q.using, uid, owner)
       ELSE q.using # "" /\ PolicyHolds(q.using, uid, owner)

UsersDeniedMessage == "permission denied for table users"

\* The SELECT policies of files read auth.users; when the role of the
\* request may not, the statement fails.
ReadsAuthUsers(table) ==
  \E q \in Policies : q.table = table /\ q.cmd = "SELECT" /\ q.using = "admin in auth.users"

Statement(fn) ==
  [NoStatement EXCEPT !.fn = fn, !.uid = api.session,
                      !.admin = (api.session # 0 /\ api.profiles[api.session] = "admin")]

NewFileId == CHOOSE k \in 1..(Cardinality(db.files) + 1) : \A f \in db.files : f.id # k

\* supabase.from('files') select / insert / update / delete by the user
\* signed in.  update and delete name the row by id; update may try to
\* hand the row to another user.
FileStatement(cmd, id, user_id, usersReadable) ==
  /\ cmd \in {"SELECT", "INSERT", "UPDATE", "DELETE"}
  /\ cmd = "INSERT" => Cardinality(db.files) < MaxFiles /\ id = 0
  /\ cmd \in {"SELECT", "DELETE"} => user_id = 0
  /\ cmd = "SELECT" => id = 0
  /\ \E st \in {Statement(cmd)},
        visible \in {{f \in db.files : Permits("files", "SELECT", api.session, f.user_id, FALSE)}} :
       IF cmd # "INSERT" /\ ReadsAuthUsers("files") /\ ~usersReadable
       THEN db' = [db EXCEPT !.last = [st EXCEPT !.raised = UsersDeniedMessage]]
       ELSE IF cmd = "SELECT"
       THEN db' = [db EXCEPT !.last = [st EXCEPT !.rows = visible]]
       ELSE IF cmd = "INSERT"
       THEN IF user_id \in Users /\ api.profiles[user_id] # "missing"
               /\ Permits("files", "INSERT", api.session, user_id, TRUE)
            THEN \E f \in {[id |-> NewFileId, user_id |-> user_id]} :
                   db' = [db EXCEPT !.files = @ \cup {f}, !.last = [st EXCEPT !.new = {f}]]
            ELSE db' = [db EXCEPT !.last = [st EXCEPT !.raised = RejectedMessage]]
       ELSE \E target \in {{f \in visible : f.id = id
                              /\ Permits("files", cmd, api.session, f.user_id, FALSE)}} :
              IF cmd = "DELETE"
              THEN db' = [db EXCEPT !.files = @ \ target, !.last = [st EXCEPT !.old = target]]
              ELSE IF target = {}
              THEN db' = [db EXCEPT !.last = st]
              ELSE IF user_id \in Users /\ api.profiles[user_id] # "missing"
                      /\ Permits("files", "UPDATE", api.session, user_id, TRUE)
              THEN \E written \in {{[f EXCEPT !.user_id = user_id] : f \in target}} :
                     db' = [db EXCEPT !.files = (@ \ target) \cup written,
                                      !.last = [st EXCEPT !.old = target, !.new = written]]
              ELSE db' = [db EXCEPT !.last = [st EXCEPT !.raised = RejectedMessage]]
  /\ UNCHANGED <<calls, stored, objectURLs, body, timers, upload, api, net>>

\* supabase.from('profiles') select / insert / update by the user signed
\* in, on the profile of the user id; an insert or update writes is_admin.
ProfileStatement(cmd, id, kind) ==
  /\ cmd \in {"SELECT", "INSERT", "UPDATE"}
  /\ id \in Users /\ kind \in {"user", "admin"}
  /\ cmd = "SELECT" => kind = "user"
  /\ \E st \in {Statement("profiles " \o cmd)},
        exists \in {api.profiles[id] # "missing"} :
       IF cmd = "SELECT"
       THEN /\ db' = [db EXCEPT !.last = [st EXCEPT !.ids =
                        IF exists /\ Permits("profiles", "SELECT", api.session, id, FALSE)
                        THEN {id} ELSE {}]]
            /\ api' = api
       ELSE IF cmd = "INSERT"
       THEN IF ~exists /\ api.session # 0 /\ Permits("profiles", "INSERT", api.session, id, TRUE)
            THEN /\ api' = [api EXCEPT !.profiles[id] = kind]
                 /\ db' = [db EXCEPT !.last = [st EXCEPT !.ids = {id}]]
            ELSE /\ api' = api
                 /\ db' = [db EXCEPT !.last = [st EXCEPT !.raised = RejectedMessage]]
       ELSE IF exists /\ Permits("profiles", "SELECT", api.session, id, FALSE)
               /\ Permits("profiles", "UPDATE", api.session, id, FALSE)
               /\ Permits("profiles", "UPDATE", api.session, id, TRUE)
            THEN /\ api' = [api EXCEPT !.profiles[id] = kind]
                 /\ db' = [db EXCEPT !.last = [st EXCEPT !.ids = {id}]]
            ELSE /\ api' = api
                 /\ db' = [db EXCEPT !.last = st]
  /\ UNCHANGED <<calls, stored, objectURLs, body, timers, upload, net>>

NextRls ==
  \/ \E u \in Users : SignIn(u)
  \/ SignOut
  \/ \E u \in Users, kind \in {"user", "admin", "missing"} : SetProfile(u, kind)
  \/ \E cmd \in {"SELECT", "INSERT", "UPDATE", "DELETE"}, id \in 0..MaxFiles,
        user_id \in {0} \cup Users, usersReadable \in BOOLEAN :
       FileStatement(cmd, id, user_id, usersReadable)
  \/ \E cmd \in {"SELECT", "INSERT", "UPDATE"}, id \in Users, kind \in {"user", "admin"} :
       ProfileStatement(cmd, id, kind)

RlsSpec == Init /\ [][NextRls]_vars

\* C24: row level security keeps the data of users apart.  A user who is
\* not an administrator reads, inserts, updates and deletes only files rows
\* whose user_id is their own id, and reads, inserts and updates only their
\* own profiles row; rows of other users are read only by a user whose
\* profile has is_admin true; and nobody, administrator or not, inserts,
\* updates or deletes a file of another user.
DataIsolation ==
  [][db'.last # db.last =>
       LET st == db'.last
           isFile == st.fn \in {"SELECT", "INSERT", "UPDATE", "DELETE"}
           touched == st.rows \cup st.old \cup st.new
           written == st.old \cup st.new
       IN  /\ st.uid = api.session
           /\ st.admin = (api.session # 0 /\ api.profiles[api.session] = "admin")
           /\ (isFile /\ ~st.admin) => \A f \in touched : f.user_id = st.uid
           /\ ~st.admin => \A id \in st.ids : id = st.uid
           /\ (\E f \in st.rows : f.user_id # st.uid) => st.admin
           /\ \A f \in written : f.user_id = st.uid
           /\ isFile => st.rows \subseteq db.files /\ st.old \subseteq db.files
           /\ db'.files # db.files => (db'.files \ db.files) \cup (db.files \ db'.files) = written
           /\ st.uid = 0 => touched = {} /\ st.ids = {}
           /\ st.raised # "" => touched = {} /\ db'.files = db.files]_vars

\* An administrator has read a file of another user, and a user who is not
\* an administrator has read their own file while another user's file was
\* in the table.
DataIsolationWitness ==
  /\ db.last.fn = "SELECT"
  /\ \E f \in db.files : f.user_id # db.last.uid
  /\ \/ db.last.admin /\ \E f \in db.last.rows : f.user_id # db.last.uid
     \/ ~db.last.admin /\ db.last.uid # 0 /\ db.last.rows # {}

\* ---------------------------------------------------------------------
\* The database functions verify_api_key and get_files_for_analysis.
\* ---------------------------------------------------------------------

MaxNow == 3

\* The expiry createApiKey is given when it is given one.
ExpiresAt == 2

InvalidKeyMessage == "Invalid or expired API key"
NotAdminMessage == "User is not an admin"

\* The user who administers in the runs of the two functions.
KeyAdmin == CHOOSE u \in Users : \A v \in Users : u <= v

\* The raw keys createApiKey generates in those runs, and the texts a caller
\* passes as api_key: these raw keys and their hashes.
KeyUuids == {<<a, 1>> : a \in 1..NumUuids}
ApiKeyInputs == {RawKey(u) : u \in KeyUuids} \cup {Sha256Hex(RawKey(u)) : u \in KeyUuids}

\* An UPDATE that leaves the expiry out of its WHERE clause.
VerifyMatchAnyTime(api_key) == {r \in api.keys : r.key = api_key}

\* The rows of the UPDATE of verify_api_key:
\* WHERE key = api_key AND (expires_at IS NULL OR expires_at > now())
VerifyMatch(api_key) ==
  {r \in api.keys : r.key = api_key /\ (r.expires_at = 0 \/ r.expires_at > db.now)}

\* SET last_used_at = now() on those rows.
KeysUsed(api_key) ==
  {IF r \in VerifyMatch(api_key) THEN [r EXCEPT !.last_used_at = db.now] ELSE r :
     r \in api.keys}

\* The trigger ensure_admin_status on a row the UPDATE writes.
TriggerRaises(rows) == \E r \in rows : api.profiles[r.admin_id] # "admin"

\* The statement a call of one of the two functions starts.
KeyStatement(fn, api_key) ==
  [Statement(fn) EXCEPT !.api_key = api_key, !.at = db.now,
                        !.matched = {r.id : r \in VerifyMatch(api_key)}]

\* select verify_api_key(api_key), on its own.
VerifyApiKey(api_key) ==
  /\ db.txn.pc = "idle"
  /\ \E st \in {KeyStatement("verify_api_key", api_key)}, after \in {KeysUsed(api_key)} :
       IF TriggerRaises(VerifyMatch(api_key))
       THEN /\ db' = [db EXCEPT !.last = [st EXCEPT !.raised = NotAdminMessage]]
            /\ api' = api
       ELSE /\ db' = [db EXCEPT !.last =
                       [st EXCEPT !.admin_id =
                          IF VerifyMatch(api_key) = {} THEN 0
                          ELSE (CHOOSE r \in VerifyMatch(api_key) : TRUE).admin_id]]
            /\ api' = [api EXCEPT !.keys = after]
  /\ UNCHANGED <<calls, stored, objectURLs, body, timers, upload, net>>

\* get_files_for_analysis, up to the branch on admin_id IS NULL: the call
\* of verify_api_key, whose UPDATE is not committed yet.
GetFilesVerify(api_key) ==
  /\ db.txn.pc = "idle"
  /\ \E st \in {KeyStatement("get_files_for_analysis", api_key)} :
       IF TriggerRaises(VerifyMatch(api_key))
       THEN db' = [db EXCEPT !.last = [st EXCEPT !.raised = NotAdminMessage]]
       ELSE IF VerifyMatch(api_key) = {}
       THEN db' = [db EXCEPT !.last = [st EXCEPT !.raised = InvalidKeyMessage]]
       ELSE db' = [db EXCEPT !.txn = [pc |-> "verified", st |->
                     [st EXCEPT !.admin_id = (CHOOSE r \in VerifyMatch(api_key) : TRUE).admin_id,
                                !.new = KeysUsed(api_key)]]]
  /\ UNCHANGED <<calls, stored, objectURLs, body, timers, upload, api, net>>

\* get_files_for_analysis from the check of the profile on: it raises, and
\* the UPDATE is rolled back with the transaction, or it returns the files
\* and the UPDATE is committed.
GetFilesCheck ==
  /\ db.txn.pc = "verified"
  /\ IF api.profiles[db.txn.st.admin_id] # "admin"
     THEN /\ db' = [db EXCEPT !.txn = IdleTxn,
                              !.last = [db.txn.st EXCEPT !.raised = NotAdminMessage, !.new = {}]]
          /\ api' = api
     ELSE /\ db' = [db EXCEPT !.txn = IdleTxn,
                              !.last = [db.txn.st EXCEPT !.rows = db.files, !.new = {}]]
          /\ api' = [api EXCEPT !.keys = db.txn.st.new]
  /\ UNCHANGED <<calls, stored, objectURLs, body, timers, upload, net>>

\* Time passes.
Tick ==
  /\ db.now < MaxNow
  /\ db' = [db EXCEPT !.now = @ + 1]
  /\ UNCHANGED <<calls, stored, objectURLs, body, timers, upload, api, net>>

\* Administrators create keys, files appear, time passes, and the two
\* functions are called with raw keys and with hashes.  A statement on
\* api_keys waits while a call holds the lock of a row it has updated.
NextKey ==
  \/ \E expiresAt \in {0, ExpiresAt} : ApiInvoke("createApiKey", "ci", expiresAt, 0)
  \/ GetSessionSettled(FALSE)
  \/ \E uuids \in KeyUuids : ProfileSettled(FALSE, uuids)
  \/ db.txn.pc = "idle" /\ OpSettled(FALSE, TRUE)
  \/ ApiSettle
  \/ SignIn(KeyAdmin)
  \/ \E kind \in {"user", "admin"} : SetProfile(KeyAdmin, kind)
  \/ FileStatement("INSERT", 0, KeyAdmin, TRUE)
  \/ Tick
  \/ \E api_key \in ApiKeyInputs : VerifyApiKey(api_key)
  \/ \E api_key \in ApiKeyInputs : GetFilesVerify(api_key)
  \/ GetFilesCheck

KeySpec == Init /\ [][NextKey]_vars

\* C22: a key issued by createApiKey is usable.  When the raw key a call
\* of createApiKey has returned is passed to get_files_for_analysis while
\* the row of the key is unexpired and its owner is an administrator, the
\* function finds the owner and returns the files; it does not raise.
IssuedKeyUsable ==
  [][(/\ db'.last # db.last
      /\ db'.last.fn = "get_files_for_analysis"
      /\ api.call.fn = "createApiKey" /\ api.call.outcome = "returned"
      /\ db'.last.api_key = api.call.returned
      /\ \E r \in api.keys :
           /\ r.key = Sha256Hex(api.call.returned)
           /\ r.expires_at = 0 \/ r.expires_at > db'.last.at
           /\ api.profiles[r.admin_id] = "admin")
     => /\ db'.last.raised = ""
        /\ db'.last.rows = db.files
        /\ \E r \in api.keys :
             r.key = Sha256Hex(api.call.returned) /\ db'.last.admin_id = r.admin_id]_vars

\* A call of verify_api_key or get_files_for_analysis ends in this step.
KeyCallEnds ==
  db'.last # db.last /\ db'.last.fn \in {"verify_api_key", "get_files_for_analysis"}

\* The call matches the rows whose key is the text supplied and that are
\* unexpired when it starts; it returns file rows only for such a row whose
\* owner has is_admin true, and otherwise raises, returns no row and writes
\* nothing.
KeyGateStep ==
  /\ (db.txn.pc = "idle" /\ (db'.txn.pc = "verified" \/ KeyCallEnds)) =>
       LET st == IF db'.txn.pc = "verified" THEN db'.txn.st ELSE db'.last
       IN  /\ st.at = db.now
           /\ st.matched = {r.id : r \in {k \in api.keys :
                              k.key = st.api_key /\ (k.expires_at = 0 \/ k.expires_at > db.now)}}
  /\ KeyCallEnds =>
       LET st == db'.last
           owners == {r.admin_id : r \in {k \in api.keys : k.id \in st.matched}}
       IN  /\ st.rows # {} => st.fn = "get_files_for_analysis" /\ st.raised = ""
           /\ st.raised = "" /\ st.fn = "get_files_for_analysis" =>
                /\ st.rows = db.files
                /\ \E r \in api.keys :
                     /\ r.key = st.api_key /\ r.id \in st.matched
                     /\ r.expires_at = 0 \/ r.expires_at > st.at
                     /\ api.profiles[r.admin_id] = "admin"
                     /\ st.admin_id = r.admin_id
           /\ st.matched = {} /\ st.fn = "get_files_for_analysis" =>
                st.raised = InvalidKeyMessage
           /\ (\E u \in owners : api.profiles[u] # "admin") => st.raised = NotAdminMessage
           /\ st.raised # "" => st.rows = {} /\ api'.keys = api.keys

MAX_RETRIES == 3
INITIAL_RETRY_DELAY == 1000
MAX_RETRY_DELAY == 10000

\* The reconnect interval fires at most this often in a run.
MaxReconnects == 1

\* retryCount of connectionState is counted up to here.
MaxRetryCount == 6

TimedOutMessage == "Operation timed out"
UnknownErrorMessage == "Unknown error"
AuthenticationMessage == "Authentication error. Please log in again."
ConnectFailedPrefix == "Failed to connect after 3 attempts: "

Min(a, b) == IF a <= b THEN a ELSE b

\* A backoff without the cap.
GetRetryDelayUncapped(retryCount) == INITIAL_RETRY_DELAY * Pow2(retryCount)

\* getRetryDelay
GetRetryDelay(retryCount) ==
  Min(INITIAL_RETRY_DELAY * Pow2(retryCount), MAX_RETRY_DELAY)

\* The messages of the errors getSession and an operation fail with; the
\* first is the one of withTimeout.
FailureMessages == {TimedOutMessage, ""}

\* What one attempt of the operation of a query comes to: data, an error
\* object, an error object with status 401, or the timeout of withTimeout.
OpResults == {"data", "error", "401", "timeout"}

Proc(p) == net.procs[p]

\* initializeSupabase is called: at module load, by the init effect of App,
\* or by the reconnect interval once init is over and the connection down.
InitializeSupabase(p) ==
  /\ p \in {"load", "app"}
  /\ \/ Proc(p).pc = "idle"
     \/ /\ p = "app" /\ Proc(p).pc = "done" /\ ~net.isConnected
        /\ Proc(p).rounds < MaxReconnects
  /\ \E next \in {[IdleProc EXCEPT !.rounds = IF Proc(p).pc = "idle" THEN 0
                                            ELSE Proc(p).rounds + 1]} :
       net' = [net EXCEPT !.procs[p] =
                 IF net.isConnected
                 THEN [next EXCEPT !.pc = "done", !.outcome = "returned"]
                 ELSE [next EXCEPT !.pc = "getSession"]]
  /\ UNCHANGED <<calls, stored, objectURLs, body, timers, upload, api, db>>

\* supabaseQuery is called: it initializes first when not connected, or
\* invokes the operation for the first time.
SupabaseQuery(p) ==
  /\ p = "query" /\ Proc(p).pc = "idle"
  /\ net' = [net EXCEPT !.procs[p] =
               IF net.isConnected
               THEN [@ EXCEPT !.pc = "op", !.invocations = 1]
               ELSE [@ EXCEPT !.pc = "getSession"]]
  /\ UNCHANGED <<calls, stored, objectURLs, body, timers, upload, api, db>>

\* withTimeout(client.auth.getSession()) settles in a call of
\* initializeSupabase.
GetSessionSettles(p, ok, message) ==
  /\ Proc(p).pc = "getSession"
  /\ ok => message = ""
  /\ ~ok => net.retryCount < MaxRetryCount
  /\ IF ok
     THEN net' = [net EXCEPT !.isConnected = TRUE, !.lastError = "null", !.retryCount = 0,
                             !.procs[p] =
                               IF p = "query"
                               THEN [@ EXCEPT !.pc = "op", !.attempt = 0, !.invocations = 1,
                                              !.waits = <<>>]
                               ELSE [@ EXCEPT !.pc = "done", !.outcome = "returned"]]
     ELSE net' = [net EXCEPT
            !.isConnected = FALSE,
            !.lastError = IF message # "" THEN message ELSE UnknownErrorMessage,
            !.retryCount = @ + 1,
            !.procs[p] =
              IF Proc(p).attempt < MAX_RETRIES - 1
              THEN [@ EXCEPT !.pc = "initWait",
                             !.waits = Append(@, GetRetryDelay(Proc(p).attempt))]
              ELSE [@ EXCEPT !.pc = IF p = "load" THEN "rejected" ELSE "done",
                             !.outcome = "thrown",
                             !.error = [message |-> ConnectFailedPrefix \o message,
                                        attempt |-> 0]]]
  /\ UNCHANGED <<calls, stored, objectURLs, body, timers, upload, api, db>>

\* The error supabaseQuery throws for what an attempt came to.
AttemptMessage(result) ==
  IF result = "401" THEN AuthenticationMessage
  ELSE IF result = "timeout" THEN TimedOutMessage
  ELSE "query error"

\* An operation that retries whatever the number of the attempt.
OperationSettlesUnbounded(p, result) ==
  /\ Proc(p).pc = "op"
  /\ net' = [net EXCEPT
       !.isConnected = IF result = "401" THEN FALSE ELSE @,
       !.procs[p] =
         IF result = "data"
         THEN [@ EXCEPT !.pc = "done", !.outcome = "returned",
                        !.results = Append(@, result), !.data = Proc(p).invocations]
         ELSE [@ EXCEPT !.pc = "opWait", !.results = Append(@, result),
                        !.waits = Append(@, GetRetryDelay(Proc(p).attempt))]]
  /\ UNCHANGED <<calls, stored, objectURLs, body, timers, upload, api, db>>

\* withTimeout(operation()) settles in supabaseQuery: the data is returned,
\* or the error (for status 401 a new one, after isConnected = false) is
\* thrown inside the try and caught by the catch of the loop.
OperationSettles(p, result) ==
  /\ Proc(p).pc = "op"
  /\ net' = [net EXCEPT
       !.isConnected = IF result = "401" THEN FALSE ELSE @,
       !.procs[p] =
         IF result = "data"
         THEN [@ EXCEPT !.pc = "done", !.outcome = "returned",
                        !.results = Append(@, result), !.data = Proc(p).invocations]
         ELSE IF Proc(p).attempt < MAX_RETRIES - 1
         THEN [@ EXCEPT !.pc = "opWait", !.results = Append(@, result),
                        !.waits = Append(@, GetRetryDelay(Proc(p).attempt))]
         ELSE [@ EXCEPT !.pc = "done", !.outcome = "thrown",
                        !.results = Append(@, result),
                        !.error = [message |-> AttemptMessage(result),
                                   attempt |-> Proc(p).invocations]]]
  /\ UNCHANGED <<calls, stored, objectURLs, body, timers, upload, api, db>>

\* The timer of a wait fires: the loop goes to its next attempt.
RetryTimerFires(p) ==
  /\ Proc(p).pc \in {"initWait", "opWait"}
  /\ net' = [net EXCEPT !.procs[p] =
               IF Proc(p).pc = "initWait"
               THEN [@ EXCEPT !.pc = "getSession", !.attempt = @ + 1]
               ELSE [@ EXCEPT !.pc = "op", !.attempt = @ + 1, !.invocations = @ + 1]]
  /\ UNCHANGED <<calls, stored, objectURLs, body, timers, upload, api, db>>

\* The catch handler of the call at module load.
LoadCatch ==
  /\ Proc("load").pc = "rejected"
  /\ net' = [net EXCEPT !.lastError = Proc("load").error.message,
                        !.procs["load"] = [@ EXCEPT !.pc = "done"]]
  /\ UNCHANGED <<calls, stored, objectURLs, body, timers, upload, api, db>>

NextConn ==
  \/ \E p \in Procs : InitializeSupabase(p)
  \/ \E p \in Procs : SupabaseQuery(p)
  \/ \E p \in Procs, ok \in BOOLEAN, message \in FailureMessages : GetSessionSettles(p, ok, message)
  \/ \E p \in Procs, result \in OpResults : OperationSettles(p, result)
  \/ \E p \in Procs : RetryTimerFires(p)
  \/ LoadCatch

ConnSpec == Init /\ [][NextConn]_vars

\* One supabaseQuery beside the call at module load.
NextQuery ==
  \/ InitializeSupabase("load")
  \/ SupabaseQuery("query")
  \/ \E p \in {"load", "query"}, ok \in BOOLEAN, message \in FailureMessages :
       GetSessionSettles(p, ok, message)
  \/ \E result \in OpResults : OperationSettles("query", result)
  \/ \E p \in {"load", "query"} : RetryTimerFires(p)
  \/ LoadCatch

\* Every await of the query settles: withTimeout bounds getSession and the
\* operation, and the timer of a wait fires.
QueryLiveSpec ==
  /\ Init /\ [][NextQuery]_vars
  /\ WF_vars(\E ok \in BOOLEAN, message \in FailureMessages : GetSessionSettles("query", ok, message))
  /\ WF_vars(\E result \in OpResults : OperationSettles("query", result))
  /\ WF_vars(RetryTimerFires("query"))

\* C25: supabaseQuery terminates after at most MAX_RETRIES invocations of
\* the operation.  It returns the data of the first attempt that neither
\* fails nor times out and attempts nothing after it; when three attempts
\* fail it throws the error of the third; a call never invokes the
\* operation more than three times; and a call that has started ends.
QueryTerminates ==
  /\ [][LET q == net'.procs["query"]
            n == Len(q.results)
        IN  /\ q.invocations <= MAX_RETRIES
            /\ n <= q.invocations /\ q.invocations <= n + 1
            /\ q.outcome = "returned" =>
                 /\ n = q.invocations /\ q.results[n] = "data" /\ q.data = n
                 /\ \A i \in 1..(n - 1) : q.results[i] # "data"
            /\ (q.outcome = "thrown" /\ q.invocations > 0) =>
                 /\ q.invocations = MAX_RETRIES /\ n = MAX_RETRIES
                 /\ \A i \in 1..n : q.results[i] # "data"
                 /\ q.error = [message |-> AttemptMessage(q.results[n]), attempt |-> MAX_RETRIES]
            /\ (q.outcome = "thrown" /\ q.invocations = 0) => q.error.attempt = 0
            /\ Proc("query").pc = "done" => q = Proc("query")]_vars
  /\ (Proc("query").pc # "idle") ~> (Proc("query").pc = "done")

\* supabaseQuery has thrown the error of its third attempt, after two
\* attempts that failed.
QueryTerminatesWitness ==
  /\ Proc("query").pc = "done" /\ Proc("query").outcome = "thrown"
  /\ Proc("query").invocations = MAX_RETRIES
  /\ Proc("query").error.attempt = MAX_RETRIES

\* C26: the wait before retry n is min(1000 * 2^n, 10000) ms, so the waits
\* never go down and never exceed 10000.  In initializeSupabase and in
\* supabaseQuery a wait happens only between two attempts, 1000 ms and then
\* 2000 ms, and none after the last attempt.
BackoffSchedule ==
  [][/\ \A n \in 0..MaxRetryCount :
          /\ GetRetryDelay(n) = IF 1000 * 2 ^ n < 10000 THEN 1000 * 2 ^ n ELSE 10000
          /\ GetRetryDelay(n) <= 10000
          /\ n > 0 => GetRetryDelay(n - 1) <= GetRetryDelay(n)
     /\ \A p \in Procs :
          LET before == Proc(p)
              after == net'.procs[p]
          IN  /\ Len(after.waits) <= MAX_RETRIES - 1
              /\ \A i \in 1..Len(after.waits) : after.waits[i] = <<1000, 2000>>[i]
              /\ after.waits # before.waits =>
                   \/ after.waits = <<>>
                   \/ /\ after.waits = Append(before.waits, GetRetryDelay(before.attempt))
                      /\ before.pc \in {"getSession", "op"}
                      /\ after.pc \in {"initWait", "opWait"}
                      /\ before.attempt < MAX_RETRIES - 1
              /\ (before.pc \in {"initWait", "opWait"} /\ after # before) =>
                   /\ after.pc = IF before.pc = "initWait" THEN "getSession" ELSE "op"
                   /\ after.attempt = before.attempt + 1
                   /\ after.attempt = Len(after.waits)
              /\ (after.pc \in {"done", "rejected"} /\ after.outcome = "thrown") =>
                   /\ after.attempt = MAX_RETRIES - 1
                   /\ after.waits = <<1000, 2000>>]_vars

\* A call has failed three times with the waits 1000 and 2000 between its
\* attempts.
BackoffScheduleWitness ==
  \E p \in Procs :
    /\ Proc(p).pc = "done" /\ Proc(p).outcome = "thrown"
    /\ Proc(p).waits = <<GetRetryDelay(0), GetRetryDelay(1)>>
    /\ Proc(p).waits = <<1000, 2000>>

\* C27: an authentication failure is not retried.  When an attempt of
\* supabaseQuery ends in an error with status 401, the call sets isConnected
\* to false and fails with 'Authentication error. Please log in again.'; it
\* does not invoke the operation again.
NoRetryOnAuthFailure ==
  [][\A p \in Procs :
       LET before == Proc(p)
           after == net'.procs[p]
       IN  /\ (after.results # before.results
                 /\ after.results[Len(after.results)] = "401") =>
                /\ ~net'.isConnected
                /\ after.pc = "done" /\ after.outcome = "thrown"
                /\ after.error.message = AuthenticationMessage
           /\ (\E i \in 1..Len(before.results) : before.results[i] = "401") =>
                after.invocations = before.invocations]_vars

\* C28: connectionState stays consistent whatever the interleaving of the
\* calls of initializeSupabase and of the catch handler of the call at
\* module load.  Whenever isConnected is true, lastError is null; and no
\* failing attempt of a call sets isConnected back to false once another
\* call has established the connection.
ConnectionConsistent ==
  [][/\ net'.isConnected => net'.lastError = "null"
     /\ (net.isConnected /\ ~net'.isConnected) =>
          \A p \in Procs : ~(Proc(p).pc = "getSession" /\ net'.procs[p] # Proc(p))]_vars

====
